---- MODULE Spec2Model ----
(***************************************************************************)
(* A model of the Hawk-Eye 3D visualizer: the schema extractor             *)
(* (HawkEyeVisualizer3D.tsx helpers), the track builder                    *)
(* (lib/parseHawkEye.ts), the trunk-rotation filter and the viewer's       *)
(* React state machine (render = memos in hook order, then effects).       *)
(*                                                                         *)
(* Numbers.  JavaScript numbers are modelled as exact rationals n/d; NaN   *)
(* and the infinities are separate kinds.  Strings are tuples of one-      *)
(* character strings so that toLowerCase / toUpperCase / includes are      *)
(* computed, not assumed.                                                  *)
(***************************************************************************)
EXTENDS Integers, Sequences, FiniteSets, TLC

VARIABLES
    (* schema extractor, one document at a time *)
    file,          \* the file under extraction: its text kind and, if JSON, its document
    pitchM,        \* extractPitchMetrics(obj), once computed
    batM,          \* extractBatMetrics(obj), once computed
    releaseSec,    \* extractReleaseSecondsFromJson(obj), once computed
    parsed,        \* parseHawkEyeJson(obj), once computed
    fileOutcome,   \* what onFiles' loop body did with the file, once run
    (* trunk-rotation filter run over a sequence of raw shoulder yaws *)
    yaws,          \* the raw shoulder-line yaw of each frame, in whole degrees
    engineOut,     \* trunkRotDeg of the per-frame engine, frame after frame
    seriesOut,     \* series.trunkRot of the series builder, once built
    (* the viewer component *)
    tracks,        \* useState tracks
    ti,            \* useState ti, the active track (0-based)
    fi,            \* useState fi, the active frame (0-based)
    flipHAbd,      \* useState flipHAbd
    flipHome,      \* useState flipHome
    prevJointMap,  \* prevJointMapRef.current
    prevTrunkDeg,  \* prevTrunkDegRef.current
    frameJoints,   \* the frameJoints memo
    metrics,       \* the metrics memo
    steps,         \* renders since mount
    (* onFiles over a batch of files *)
    batch,         \* the files of the FileList, in order
    batchPos,      \* how many of them the loop has gone through
    all,           \* the tracks pushed so far
    (* the biomechanics series of one track *)
    bioIn,         \* the frames and the configuration given to the biomech memo
    bioOut,        \* the series it returns, once computed
    (* hand detection on one track *)
    handIn,        \* the frames given to detectHandedness
    handOut,       \* its result, once computed
    (* event detection on one track *)
    evIn,          \* the frames, the hand hint and the declared release time
    evOut,         \* findFootStrike's and findBallRelease's results, once computed
    (* landmark resolution on one joint dictionary *)
    aliasIn,       \* the joint dictionary
    aliasOut,      \* what the draw effect and the metrics resolve, once computed
    (* the viewer's jumps *)
    loops,         \* the smoothJump loops with an animation frame requested
    jumps,         \* jumps issued since mount; whether the last user action was a
                   \* load or a track select
    biomechMemo    \* the biomech memo

extractVars == <<file, pitchM, batM, releaseSec, parsed, fileOutcome>>
trunkVars == <<yaws, engineOut, seriesOut>>
viewVars == <<tracks, ti, fi, flipHAbd, flipHome, prevJointMap, prevTrunkDeg,
              frameJoints, metrics, steps>>
batchVars == <<batch, batchPos, all>>
bioVars == <<bioIn, bioOut>>
handVars == <<handIn, handOut>>
eventVars == <<evIn, evOut>>
aliasVars == <<aliasIn, aliasOut>>
jumpVars == <<loops, jumps, biomechMemo>>
moreVars == <<batchVars, bioVars, handVars, eventVars, aliasVars, jumpVars>>
vars == <<extractVars, trunkVars, viewVars, moreVars>>

(***************************************************************************)
(* Bounds of the model.                                                    *)
(***************************************************************************)
MaxNum == 1        \* JSON numbers in metric fields range over 0..MaxNum
MaxFields == 2     \* a metrics document sets at most this many candidate fields

\* an output not computed yet
Pending == [done |-> FALSE]
Done(v) == [done |-> TRUE, v |-> v]

\* a nullable number: null / undefined, or a value
None == [def |-> FALSE, v |-> 0]
Some(v) == [def |-> TRUE, v |-> v]

NoJoints == [k \in {} |-> <<0, 0, 0>>]

\* the metrics memo when there are no frames (null), and a computed bag;
\* of the bag, the rotation metrics are modelled
NullMetrics == [null |-> TRUE, trunkRotDeg |-> None, hipRotDeg |-> None,
                hipMinusTrunk |-> None]
Bag(trunk, hip, hipMinus) == [null |-> FALSE, trunkRotDeg |-> trunk, hipRotDeg |-> hip,
                              hipMinusTrunk |-> hipMinus]

\* the component as mounted, before any file is loaded: no tracks, the
\* refs as the first run of the effects leaves them, metrics null
ViewerMounted ==
    /\ tracks = <<>> /\ ti = 0 /\ fi = 0 /\ flipHAbd = FALSE /\ flipHome = FALSE
    /\ prevJointMap = NoJoints /\ prevTrunkDeg = None
    /\ frameJoints = NoJoints /\ metrics = NullMetrics /\ steps = 0

\* no yaw sequence under the filter
TrunkIdle == yaws = <<>> /\ engineOut = <<>> /\ seriesOut = Pending

\* no batch being loaded, no series or hand detection being computed
BatchIdle == batch = <<>> /\ batchPos = 0 /\ all = <<>>
BioIdle == bioIn = <<>> /\ bioOut = <<>>
HandIdle == handIn = <<>> /\ handOut = Pending
EventIdle == evIn = <<>> /\ evOut = <<>>
AliasIdle == aliasIn = <<>> /\ aliasOut = <<>>
JumpIdle ==
    /\ loops = {} /\ jumps = [issued |-> 0, settled |-> FALSE] /\ biomechMemo = <<>>
LateIdle == EventIdle /\ AliasIdle /\ JumpIdle
MoreIdle == BatchIdle /\ BioIdle /\ HandIdle /\ LateIdle

\* no document under extraction
ExtractIdle ==
    /\ file = [text |-> "none"]
    /\ pitchM = Pending /\ batM = Pending /\ releaseSec = Pending
    /\ parsed = Pending /\ fileOutcome = Pending

(***************************************************************************)
(* JSON values.  k is the JavaScript type of the value; n/d its numeric    *)
(* value when k = "number"; s its characters when k = "string".            *)
(***************************************************************************)
JV(k, n, d, s) == [k |-> k, n |-> n, d |-> d, s |-> s]
Undef == JV("undefined", 0, 1, <<>>)
Null == JV("null", 0, 1, <<>>)
NaN == JV("NaN", 0, 1, <<>>)
Num(n) == JV("number", n, 1, <<>>)
Rat(n, d) == JV("number", n, d, <<>>)
Str(s) == JV("string", 0, 1, s)
Bool(b) == JV("boolean", IF b THEN 1 ELSE 0, 1, <<>>)
Obj == JV("object", 0, 1, <<>>)

\* v == null in JavaScript: null or undefined
IsNullish(v) == v.k \in {"undefined", "null"}

Digits == <<"0", "1", "2", "3", "4", "5", "6", "7", "8", "9">>
IsDigit(c) == \E i \in 1..10 : Digits[i] = c
DigitVal(c) == (CHOOSE i \in 1..10 : Digits[i] = c) - 1

RECURSIVE DecimalValue(_)
DecimalValue(s) ==
    IF s = <<>> THEN 0
    ELSE 10 * DecimalValue(SubSeq(s, 1, Len(s) - 1)) + DigitVal(s[Len(s)])

\* Number(v) for the JSON values of the model: null -> 0, "" -> 0,
\* a string of digits -> its value, any other string -> NaN,
\* true/false -> 1/0, undefined and objects -> NaN.
ToNumber(v) ==
    CASE v.k = "number" -> v
      [] v.k = "null" -> Num(0)
      [] v.k = "boolean" -> Num(v.n)
      [] v.k = "string" ->
            IF \A i \in 1..Len(v.s) : IsDigit(v.s[i])
            THEN Num(DecimalValue(v.s)) ELSE NaN
      [] OTHER -> NaN

\* Number.isFinite(x): no coercion
IsFiniteNumber(v) == v.k = "number"

\* firstNum(...vals): the first candidate whose Number() is finite, else null
firstNum(vals) ==
    LET hit == {i \in 1..Len(vals) : IsFiniteNumber(ToNumber(vals[i]))}
    IN IF hit = {} THEN Null
       ELSE ToNumber(vals[CHOOSE i \in hit : \A j \in hit : i <= j])

mphFromMs(ms) == IF IsNullish(ms) THEN Null ELSE Rat(ms.n * 223694, ms.d * 100000)
mphFromKph(kph) == IF IsNullish(kph) THEN Null ELSE Rat(kph.n * 621371, kph.d * 1000000)
inchesFromMm(mm) == IF IsNullish(mm) THEN Null ELSE Rat(mm.n * 10, mm.d * 254)
inchesFromCm(cm) == IF IsNullish(cm) THEN Null ELSE Rat(cm.n * 100, cm.d * 254)
feetFromM(m) == IF IsNullish(m) THEN Null ELSE Rat(m.n * 328084, m.d * 100000)

(***************************************************************************)
(* Strings.                                                                *)
(***************************************************************************)
Uppers == <<"A", "B", "C", "D", "E", "F", "G", "H", "I", "J", "K", "L", "M",
            "N", "O", "P", "Q", "R", "S", "T", "U", "V", "W", "X", "Y", "Z">>
Lowers == <<"a", "b", "c", "d", "e", "f", "g", "h", "i", "j", "k", "l", "m",
            "n", "o", "p", "q", "r", "s", "t", "u", "v", "w", "x", "y", "z">>

LowerChar(c) ==
    IF \E i \in 1..Len(Uppers) : Uppers[i] = c
    THEN Lowers[CHOOSE i \in 1..Len(Uppers) : Uppers[i] = c] ELSE c
UpperChar(c) ==
    IF \E i \in 1..Len(Lowers) : Lowers[i] = c
    THEN Uppers[CHOOSE i \in 1..Len(Lowers) : Lowers[i] = c] ELSE c

toLowerCase(s) == [i \in 1..Len(s) |-> LowerChar(s[i])]
toUpperCase(s) == [i \in 1..Len(s) |-> UpperChar(s[i])]

\* s.includes(t)
includes(s, t) ==
    \E i \in 0..(Len(s) - Len(t)) : SubSeq(s, i + 1, i + Len(t)) = t

RECURSIVE NatToString(_)
NatToString(n) ==
    IF n < 10 THEN <<Digits[n + 1]>>
    ELSE NatToString(n \div 10) \o <<Digits[(n % 10) + 1]>>

\* JavaScript truthiness of a JSON value
Truthy(v) ==
    CASE v.k \in {"undefined", "null", "NaN"} -> FALSE
      [] v.k = "number" -> v.n # 0
      [] v.k = "boolean" -> v.n = 1
      [] v.k = "string" -> v.s # <<>>
      [] OTHER -> TRUE

\* String(v) / v.toString() for the JSON values of the model
ToStringJS(v) ==
    CASE v.k = "string" -> v.s
      [] v.k = "number" -> NatToString(v.n)
      [] v.k = "boolean" -> IF v.n = 1 THEN <<"t", "r", "u", "e">>
                            ELSE <<"f", "a", "l", "s", "e">>
      [] v.k = "null" -> <<"n", "u", "l", "l">>
      [] v.k = "undefined" -> <<"u", "n", "d", "e", "f", "i", "n", "e", "d">>
      [] OTHER -> <<"[", "o", "b", "j", "e", "c", "t", " ", "O", "b", "j", "e", "c", "t", "]">>

sPITCH == <<"P", "I", "T", "C", "H">>
sCONTACT == <<"C", "O", "N", "T", "A", "C", "T">>
sContact == <<"c", "o", "n", "t", "a", "c", "t">>

(***************************************************************************)
(* Documents.  f maps the paths of the scalar fields the document holds to *)
(* their values; a path that is not in DOMAIN f reads as undefined, which  *)
(* is what optional chaining (root?.a?.b) yields.  The lists the           *)
(* extractors walk are kept apart: kind is "absent" (undefined or null),   *)
(* "other" (present, not an array) or "array".                             *)
(***************************************************************************)
Get(r, path) == IF path \in DOMAIN r.f THEN r.f[path] ELSE Undef

\* obj?.name on a list item (an object as a function from its keys)
Field(obj, name) == IF name \in DOMAIN obj THEN obj[name] ELSE Undef

List(kind, items) == [kind |-> kind, items |-> items]
AbsentList == List("absent", <<>>)
OtherList == List("other", <<>>)
Arr(items) == List("array", items)

NoFields == [p \in {} |-> Undef]

Doc(f, events, detailsEvents, players, detailsPlayers, people) ==
    [f |-> f, events |-> events, detailsEvents |-> detailsEvents,
     players |-> players, detailsPlayers |-> detailsPlayers, people |-> people]

EmptyDoc == Doc(NoFields, AbsentList, AbsentList, AbsentList, AbsentList, AbsentList)

\* arr.find(e => String(e?.type || "").toUpperCase() === TYPE), or undefined
TypeIs(e, type) ==
    LET t == Field(e, "type")
    IN toUpperCase(IF Truthy(t) THEN ToStringJS(t) ELSE <<>>) = type
FindEvent(items, type) ==
    LET hit == {i \in 1..Len(items) : TypeIs(items[i], type)}
    IN IF hit = {} THEN <<>>
       ELSE items[CHOOSE i \in hit : \A j \in hit : i <= j]

(***************************************************************************)
(* extractPitchMetrics / extractBatMetrics                                 *)
(***************************************************************************)
extractPitchMetrics(r) ==
    [velocityMph |-> firstNum(<<
        Get(r, <<"pitch", "velocityMph">>), Get(r, <<"pitchData", "velocityMph">>),
        Get(r, <<"details", "pitch", "velocityMph">>),
        Get(r, <<"metrics", "pitch", "velocityMph">>),
        mphFromMs(firstNum(<<Get(r, <<"pitch", "velocityMs">>),
                             Get(r, <<"pitchData", "velocityMs">>)>>)),
        mphFromKph(firstNum(<<Get(r, <<"pitch", "velocityKph">>),
                              Get(r, <<"pitchData", "velocityKph">>)>>))>>),
     inducedVertBreakIn |-> firstNum(<<
        Get(r, <<"pitch", "inducedVertBreakIn">>),
        Get(r, <<"pitchData", "inducedVertBreakIn">>),
        Get(r, <<"metrics", "pitch", "ivbIn">>),
        Get(r, <<"metrics", "pitch", "verticalBreakIn">>),
        inchesFromMm(firstNum(<<Get(r, <<"pitch", "inducedVertBreakMm">>),
                                Get(r, <<"pitchData", "inducedVertBreakMm">>)>>)),
        inchesFromCm(firstNum(<<Get(r, <<"pitch", "inducedVertBreakCm">>),
                                Get(r, <<"pitchData", "inducedVertBreakCm">>)>>))>>),
     horizontalBreakIn |-> firstNum(<<
        Get(r, <<"pitch", "horizontalBreakIn">>),
        Get(r, <<"pitchData", "horizontalBreakIn">>),
        Get(r, <<"metrics", "pitch", "hbIn">>),
        Get(r, <<"metrics", "pitch", "horizontalBreakIn">>),
        inchesFromMm(firstNum(<<Get(r, <<"pitch", "horizontalBreakMm">>),
                                Get(r, <<"pitchData", "horizontalBreakMm">>)>>)),
        inchesFromCm(firstNum(<<Get(r, <<"pitch", "horizontalBreakCm">>),
                                Get(r, <<"pitchData", "horizontalBreakCm">>)>>))>>),
     extensionFt |-> firstNum(<<
        Get(r, <<"pitch", "extensionFt">>), Get(r, <<"pitchData", "extensionFt">>),
        Get(r, <<"metrics", "pitch", "extensionFt">>),
        feetFromM(firstNum(<<Get(r, <<"pitch", "extensionM">>),
                             Get(r, <<"pitchData", "extensionM">>)>>))>>)]

\* the CONTACT event of root.events, else of root.details.events
ContactEvent(r) ==
    FindEvent(IF r.events.kind = "array" THEN r.events.items
              ELSE IF r.detailsEvents.kind = "array" THEN r.detailsEvents.items
              ELSE <<>>, sCONTACT)

extractBatMetrics(r) ==
    LET contact == ContactEvent(r)
    IN [evMph |-> firstNum(<<
            Get(r, <<"battedBall", "exitVelocityMph">>), Field(contact, "exitVelocityMph"),
            mphFromMs(firstNum(<<Get(r, <<"battedBall", "exitVelocityMs">>),
                                 Field(contact, "exitVelocityMs")>>)),
            mphFromKph(firstNum(<<Get(r, <<"battedBall", "exitVelocityKph">>),
                                  Field(contact, "exitVelocityKph")>>))>>),
        laDeg |-> firstNum(<<
            Get(r, <<"battedBall", "launchAngleDeg">>), Field(contact, "launchAngleDeg"),
            Get(r, <<"battedBall", "launchAngle">>), Field(contact, "launchAngle")>>),
        batSpeedMph |-> firstNum(<<
            Get(r, <<"swing", "batSpeedMph">>), Get(r, <<"metrics", "bat", "speedMph">>),
            Field(contact, "batSpeedMph"),
            mphFromMs(firstNum(<<Get(r, <<"swing", "batSpeedMs">>),
                                 Field(contact, "batSpeedMs")>>)),
            mphFromKph(firstNum(<<Get(r, <<"swing", "batSpeedKph">>),
                                  Field(contact, "batSpeedKph")>>))>>),
        swingPathTiltDeg |-> firstNum(<<
            Get(r, <<"swing", "swingPathTiltDeg">>),
            Get(r, <<"metrics", "swing", "pathTiltDeg">>),
            Field(contact, "swingPathTiltDeg")>>),
        attackDirectionDeg |-> firstNum(<<
            Get(r, <<"swing", "attackDirectionDeg">>),
            Get(r, <<"metrics", "swing", "attackDirectionDeg">>),
            Field(contact, "attackDirectionDeg")>>),
        attackAngleDeg |-> firstNum(<<
            Get(r, <<"swing", "attackAngleDeg">>),
            Get(r, <<"metrics", "swing", "attackAngleDeg">>),
            Field(contact, "attackAngleDeg")>>)]

(***************************************************************************)
(* Release time.  Date strings of the model are "T" followed by the        *)
(* milliseconds since the epoch in decimal, standing for an ISO-8601       *)
(* timestamp; every other string is one Date.parse rejects.                *)
(***************************************************************************)
IsDateString(s) ==
    /\ Len(s) >= 2 /\ s[1] = "T"
    /\ \A i \in 2..Len(s) : IsDigit(s[i])

\* new Date(v).getTime() for a truthy v: epoch milliseconds, or NaN
DateGetTime(v) ==
    CASE v.k = "number" -> v
      [] v.k = "boolean" -> Num(v.n)
      [] v.k = "string" ->
            IF IsDateString(v.s) THEN Num(DecimalValue(Tail(v.s))) ELSE NaN
      [] OTHER -> NaN

\* a ?? b ?? ... ?? null
RECURSIVE Coalesce(_)
Coalesce(vals) ==
    IF vals = <<>> THEN Null
    ELSE IF ~IsNullish(Head(vals)) THEN Head(vals) ELSE Coalesce(Tail(vals))

\* the PITCH event of root.events ?? root.details.events ?? []
PitchEvent(r) ==
    LET events == IF r.events.kind # "absent" THEN r.events
                  ELSE IF r.detailsEvents.kind # "absent" THEN r.detailsEvents
                  ELSE Arr(<<>>)
    IN IF events.kind = "array" THEN FindEvent(events.items, sPITCH) ELSE <<>>

RelUTC(r) ==
    LET e == PitchEvent(r)
    IN Coalesce(<<Field(e, "refinedReleaseTimeUTC"), Field(e, "releaseTimeUTC"),
                  Field(e, "ballReleaseTimeUTC"), Field(e, "releaseUtc")>>)

StartUTC(r) ==
    Coalesce(<<Get(r, <<"time", "startUTC">>), Get(r, <<"timeline", "startUTC">>),
               Get(r, <<"meta", "startUTC">>)>>)

\* a - b and a / 1000 on numbers, NaN propagating
NumSub(a, b) ==
    IF a.k = "number" /\ b.k = "number" THEN Rat(a.n * b.d - b.n * a.d, a.d * b.d)
    ELSE NaN
DivBy1000(a) == IF a.k = "number" THEN Rat(a.n, a.d * 1000) ELSE NaN

extractReleaseSecondsFromJson(r) ==
    IF ~Truthy(RelUTC(r)) THEN Undef
    ELSE IF ~Truthy(StartUTC(r)) THEN Undef
    ELSE DivBy1000(NumSub(DateGetTime(RelUTC(r)), DateGetTime(StartUTC(r))))

(***************************************************************************)
(* Track builder (lib/parseHawkEye.ts).  A person is                       *)
(*   [personId, role |-> [raw, name], rate, joints]                        *)
(* where role.raw is person.role and role.name its .name when it is an     *)
(* object, rate is person.system.targetFrameRate, and joints is the list   *)
(* person.joints whose items are [obj, e]: obj says whether the item is an *)
(* object, e maps its keys to lists (the would-be coordinate arrays).      *)
(***************************************************************************)
PosInf == JV("Infinity", 1, 1, <<>>)

\* a / b in IEEE arithmetic, for a >= 0 and b any finite number
NumDiv(a, b) ==
    IF b.n = 0 THEN (IF a.n = 0 THEN NaN ELSE PosInf)
    ELSE IF b.n > 0 THEN Rat(a.n * b.d, a.d * b.n)
    ELSE Rat(-(a.n * b.d), a.d * (-b.n))

\* a <= b in IEEE arithmetic: false when either is NaN
NumLeq(a, b) ==
    CASE a.k = "NaN" \/ b.k = "NaN" -> FALSE
      [] b.k = "Infinity" -> TRUE
      [] a.k = "Infinity" -> FALSE
      [] OTHER -> a.n * b.d <= b.n * a.d

\* a === b on numbers: NaN is equal to nothing
NumEq(a, b) ==
    CASE a.k = "NaN" \/ b.k = "NaN" -> FALSE
      [] a.k = "Infinity" \/ b.k = "Infinity" -> a.k = b.k
      [] OTHER -> a.n * b.d = b.n * a.d

num(v) == IF IsFiniteNumber(ToNumber(v)) THEN ToNumber(v) ELSE Null

sPitch == <<"p", "i", "t", "c", "h">>
sBat == <<"b", "a", "t">>
sHit == <<"h", "i", "t">>
sPitcher == <<"p", "i", "t", "c", "h", "e", "r">>
sHitter == <<"h", "i", "t", "t", "e", "r">>
sUnknown == <<"u", "n", "k", "n", "o", "w", "n">>

\* (raw?.name ?? raw ?? "").toString().toLowerCase()
RoleLabel(role) ==
    LET nm == IF role.raw.k = "object" THEN role.name ELSE Undef
        v == IF ~IsNullish(nm) THEN nm
             ELSE IF ~IsNullish(role.raw) THEN role.raw ELSE Str(<<>>)
    IN toLowerCase(ToStringJS(v))

normalizeRole(role) ==
    LET s == RoleLabel(role)
    IN IF includes(s, sPitch) THEN sPitcher
       ELSE IF includes(s, sBat) \/ includes(s, sHit) THEN sHitter
       ELSE IF s # <<>> THEN s ELSE sUnknown

DefaultFps == 300

extractFPS(r, person) ==
    LET v == Coalesce(<<num(person.rate),
                        num(Get(r, <<"samples", "system", "targetFrameRate">>)),
                        num(Get(r, <<"system", "targetFrameRate">>))>>)
    IN IF IsNullish(v) THEN Num(DefaultFps) ELSE v

\* Array.isArray(v) && v.length === 3 && v.every(Number.isFinite)
IsTriple(v) ==
    /\ v.kind = "array" /\ Len(v.items) = 3
    /\ \A i \in 1..3 : IsFiniteNumber(v.items[i])

\* the joints kept of one per-frame dictionary
FrameJointsOf(J) ==
    IF J.obj
    THEN [k \in {k \in DOMAIN J.e : IsTriple(J.e[k])} |->
              <<J.e[k].items[1].n, J.e[k].items[2].n, J.e[k].items[3].n>>]
    ELSE [k \in {} |-> <<0, 0, 0>>]

buildFramesFromPerson(person, fps) ==
    IF person.joints.kind # "array" \/ Len(person.joints.items) = 0 THEN <<>>
    ELSE [i \in 1..Len(person.joints.items) |->
              [time |-> NumDiv(Num(i - 1), fps),
               joints |-> FrameJointsOf(person.joints.items[i])]]

TrackOf(r, person) ==
    [role |-> normalizeRole(person.role),
     personId |-> person.personId,
     fps |-> extractFPS(r, person),
     frames |-> buildFramesFromPerson(person, extractFPS(r, person))]

\* the parser without its "if (!frames.length) continue"
ParseKeepingEmptyTracks(r) ==
    IF r.people.kind = "array"
    THEN [i \in 1..Len(r.people.items) |-> TrackOf(r, r.people.items[i])]
    ELSE <<>>

\* the tracks of root.samples.people, in order; the metric bags the parser
\* attaches to a track are left out
parseHawkEyeJson(r) ==
    IF r.people.kind = "array"
    THEN SelectSeq([i \in 1..Len(r.people.items) |-> TrackOf(r, r.people.items[i])],
                   LAMBDA t : Len(t.frames) # 0)
    ELSE <<>>

(***************************************************************************)
(* The metric extractors applied to one document.                          *)
(***************************************************************************)
JsonFile(d) == [text |-> "json", obj |-> d]
MalformedFile == [text |-> "malformed", obj |-> EmptyDoc]

\* the candidate fields of each metric: paths under root, and fields of the
\* CONTACT event
PitchCands ==
    [velocityMph |-> {<<"pitch", "velocityMph">>, <<"pitchData", "velocityMph">>,
                      <<"details", "pitch", "velocityMph">>,
                      <<"metrics", "pitch", "velocityMph">>,
                      <<"pitch", "velocityMs">>, <<"pitchData", "velocityMs">>,
                      <<"pitch", "velocityKph">>, <<"pitchData", "velocityKph">>},
     inducedVertBreakIn |-> {<<"pitch", "inducedVertBreakIn">>,
                      <<"pitchData", "inducedVertBreakIn">>,
                      <<"metrics", "pitch", "ivbIn">>,
                      <<"metrics", "pitch", "verticalBreakIn">>,
                      <<"pitch", "inducedVertBreakMm">>,
                      <<"pitchData", "inducedVertBreakMm">>,
                      <<"pitch", "inducedVertBreakCm">>,
                      <<"pitchData", "inducedVertBreakCm">>},
     horizontalBreakIn |-> {<<"pitch", "horizontalBreakIn">>,
                      <<"pitchData", "horizontalBreakIn">>,
                      <<"metrics", "pitch", "hbIn">>,
                      <<"metrics", "pitch", "horizontalBreakIn">>,
                      <<"pitch", "horizontalBreakMm">>,
                      <<"pitchData", "horizontalBreakMm">>,
                      <<"pitch", "horizontalBreakCm">>,
                      <<"pitchData", "horizontalBreakCm">>},
     extensionFt |-> {<<"pitch", "extensionFt">>, <<"pitchData", "extensionFt">>,
                      <<"metrics", "pitch", "extensionFt">>,
                      <<"pitch", "extensionM">>, <<"pitchData", "extensionM">>}]

BatCands ==
    [evMph |-> {<<"battedBall", "exitVelocityMph">>, <<"battedBall", "exitVelocityMs">>,
                <<"battedBall", "exitVelocityKph">>},
     laDeg |-> {<<"battedBall", "launchAngleDeg">>, <<"battedBall", "launchAngle">>},
     batSpeedMph |-> {<<"swing", "batSpeedMph">>, <<"metrics", "bat", "speedMph">>,
                      <<"swing", "batSpeedMs">>, <<"swing", "batSpeedKph">>},
     swingPathTiltDeg |-> {<<"swing", "swingPathTiltDeg">>,
                           <<"metrics", "swing", "pathTiltDeg">>},
     attackDirectionDeg |-> {<<"swing", "attackDirectionDeg">>,
                             <<"metrics", "swing", "attackDirectionDeg">>},
     attackAngleDeg |-> {<<"swing", "attackAngleDeg">>,
                         <<"metrics", "swing", "attackAngleDeg">>}]

ContactCands ==
    [evMph |-> {"exitVelocityMph", "exitVelocityMs", "exitVelocityKph"},
     laDeg |-> {"launchAngleDeg", "launchAngle"},
     batSpeedMph |-> {"batSpeedMph", "batSpeedMs", "batSpeedKph"},
     swingPathTiltDeg |-> {"swingPathTiltDeg"},
     attackDirectionDeg |-> {"attackDirectionDeg"},
     attackAngleDeg |-> {"attackAngleDeg"}]

\* the values a candidate field takes in the documents of the model
MetricVals == {Null, Str(<<"x">>)} \cup {Num(n) : n \in 0..MaxNum}

CandSets == {PitchCands[m] : m \in DOMAIN PitchCands} \cup {BatCands[m] : m \in DOMAIN BatCands}

\* documents that set at most MaxFields candidate fields of one metric
FieldDocs ==
    {[EmptyDoc EXCEPT !.f = g] :
        g \in UNION {[S -> MetricVals] :
                S \in UNION {{T \in SUBSET c : Cardinality(T) <= MaxFields} : c \in CandSets}}}

\* documents whose event list holds one event with one metric field
EventOf(type, fld, val) == [x \in {"type", fld} |-> IF x = "type" THEN type ELSE val]
ContactDocs ==
    LET evs == {EventOf(t, fld, v) :
                    t \in {Str(sCONTACT), Str(sContact), Str(sPITCH)},
                    fld \in UNION {ContactCands[m] : m \in DOMAIN ContactCands},
                    v \in MetricVals}
    IN {[EmptyDoc EXCEPT !.events = Arr(<<e>>)] : e \in evs}
       \cup {[EmptyDoc EXCEPT !.events = OtherList, !.detailsEvents = Arr(<<e>>)] : e \in evs}

MetricDocs == FieldDocs \cup ContactDocs

InitMetrics ==
    /\ file \in {JsonFile(d) : d \in MetricDocs}
    /\ pitchM = Pending /\ batM = Pending /\ releaseSec = Pending
    /\ parsed = Pending /\ fileOutcome = Pending
    /\ TrunkIdle /\ ViewerMounted /\ MoreIdle

ExtractPitch ==
    /\ file.text = "json" /\ ~pitchM.done
    /\ pitchM' = Done(extractPitchMetrics(file.obj))
    /\ UNCHANGED <<file, batM, releaseSec, parsed, fileOutcome, trunkVars, viewVars, moreVars>>

ExtractBat ==
    /\ file.text = "json" /\ ~batM.done
    /\ batM' = Done(extractBatMetrics(file.obj))
    /\ UNCHANGED <<file, pitchM, releaseSec, parsed, fileOutcome, trunkVars, viewVars, moreVars>>

NextMetrics == ExtractPitch \/ ExtractBat


SpecMetrics == InitMetrics /\ [][NextMetrics]_vars

\* no candidate field of the metric holds a finite number
NoFiniteCandidate(r, paths, contactFields) ==
    /\ \A p \in paths : ~IsFiniteNumber(Get(r, p))
    /\ \A c \in contactFields : ~IsFiniteNumber(Field(ContactEvent(r), c))

\* C1: a derived pitch/bat metric none of whose candidate fields holds a
\* finite number (absent, JSON null, a non-numeric string) is extracted as
\* null, never as 0.
C1_NoCandidateGivesNull ==
    /\ pitchM.done =>
          \A m \in DOMAIN PitchCands :
              NoFiniteCandidate(file.obj, PitchCands[m], {}) => pitchM.v[m] = Null
    /\ batM.done =>
          \A m \in DOMAIN BatCands :
              NoFiniteCandidate(file.obj, BatCands[m], ContactCands[m]) => batM.v[m] = Null

(***************************************************************************)
(* Release-time extraction applied to one document.                        *)
(***************************************************************************)
MaxMs == 2         \* timestamps of the model are 0..MaxMs milliseconds

\* the values a timestamp field takes: absent, null, "", a string that is
\* no date, date strings, and epoch numbers
TimeVals ==
    {Undef, Null, Str(<<>>), Str(<<"s", "o", "o", "n">>)}
    \cup {Str(<<"T">> \o NatToString(n)) : n \in 0..MaxMs}
    \cup {Num(n) : n \in 1..MaxMs}

RelKeys == {"refinedReleaseTimeUTC", "releaseTimeUTC", "ballReleaseTimeUTC", "releaseUtc"}
StartPaths == {<<"time", "startUTC">>, <<"timeline", "startUTC">>, <<"meta", "startUTC">>}

\* documents with a start time under one path and one event with one
\* release key, the event list at the root or under details
ReleaseDocs ==
    LET evs == {EventOf(t, k, v) :
                    t \in {Str(sPITCH), Str(<<"p", "i", "t", "c", "h">>), Str(sCONTACT)},
                    k \in RelKeys, v \in TimeVals}
        fs == {[q \in {p} |-> v] : p \in StartPaths, v \in TimeVals}
    IN {[EmptyDoc EXCEPT !.f = g, !.events = Arr(<<e>>)] : g \in fs, e \in evs}
       \cup {[EmptyDoc EXCEPT !.f = g, !.detailsEvents = Arr(<<e>>)] : g \in fs, e \in evs}
       \cup {[EmptyDoc EXCEPT !.f = g, !.events = OtherList, !.detailsEvents = Arr(<<e>>)] :
                g \in fs, e \in evs}

InitRelease ==
    /\ file \in {JsonFile(d) : d \in ReleaseDocs}
    /\ pitchM = Pending /\ batM = Pending /\ releaseSec = Pending
    /\ parsed = Pending /\ fileOutcome = Pending
    /\ TrunkIdle /\ ViewerMounted /\ MoreIdle

ExtractRelease ==
    /\ file.text = "json" /\ ~releaseSec.done
    /\ releaseSec' = Done(extractReleaseSecondsFromJson(file.obj))
    /\ UNCHANGED <<file, pitchM, batM, parsed, fileOutcome, trunkVars, viewVars, moreVars>>

NextRelease == ExtractRelease

SpecRelease == InitRelease /\ [][NextRelease]_vars

\* a timestamp field that is present and parses as a date
ParsesAsDate(v) == ~IsNullish(v) /\ DateGetTime(v).k = "number"

\* C9: release-time extraction returns undefined when the release time or
\* the start time is absent or does not parse as a date, and a number only
\* when both parse, the number being (release - start) ms / 1000.
C9_ReleaseUndefinedUnlessBothParse ==
    releaseSec.done =>
        LET rel == RelUTC(file.obj)
            start == StartUTC(file.obj)
        IN /\ (~ParsesAsDate(rel) \/ ~ParsesAsDate(start)) => releaseSec.v = Undef
           /\ releaseSec.v # Undef =>
                 /\ ParsesAsDate(rel) /\ ParsesAsDate(start)
                 /\ releaseSec.v = DivBy1000(NumSub(DateGetTime(rel), DateGetTime(start)))

(***************************************************************************)
(* The track builder applied to one document.                              *)
(***************************************************************************)
MaxFrames == 3     \* a person's joints array holds at most this many frames
MaxRate == 2       \* frame-rate fields range over -MaxRate..MaxRate

V3In(x) == Arr(<<Num(x), Num(0), Num(0)>>)

\* per-frame dictionaries: well-formed; with an array of two numbers; with a
\* null coordinate; with an infinite coordinate (JSON 1e999) and a string
\* entry; an empty object; an item that is no object (null)
DictPool ==
    {[obj |-> TRUE, e |-> ("lWrist" :> V3In(1) @@ "rWrist" :> V3In(2))],
     [obj |-> TRUE, e |-> ("lWrist" :> V3In(3) @@ "rWrist" :> Arr(<<Num(1), Num(2)>>))],
     [obj |-> TRUE, e |-> ("lWrist" :> V3In(0) @@ "rWrist" :> Arr(<<Num(1), Null, Num(0)>>))],
     [obj |-> TRUE, e |-> ("lWrist" :> OtherList @@ "rWrist" :> Arr(<<Num(1), PosInf, Num(0)>>))],
     [obj |-> TRUE, e |-> [k \in {} |-> OtherList]],
     [obj |-> FALSE, e |-> [k \in {} |-> OtherList]]}

GoodDict == [obj |-> TRUE, e |-> ("lWrist" :> V3In(1) @@ "rWrist" :> V3In(2))]

Person(id, raw, name, rate, joints) ==
    [personId |-> id, role |-> [raw |-> raw, name |-> name], rate |-> rate,
     joints |-> joints]

JointsVariants ==
    {AbsentList, OtherList, Arr(<<>>)}
    \cup {Arr(fs) : fs \in UNION {[1..n -> DictPool] : n \in 1..MaxFrames}}

sPitcherCap == <<"P", "i", "t", "c", "h", "e", "r">>
sBatterCap == <<"B", "a", "t", "t", "e", "r">>

Fillers ==
    {Person(2, Str(sBatterCap), Undef, Undef, Arr(<<GoodDict>>)),
     Person(2, Str(sBatterCap), Undef, Undef, AbsentList)}

WithPeople(ps) == [EmptyDoc EXCEPT !.people = ps]

\* one person with any joints value, alone or beside a second person
JointsDocs ==
    LET subj == {Person(1, Str(sPitcherCap), Undef, Undef, j) : j \in JointsVariants}
    IN {WithPeople(AbsentList), WithPeople(OtherList), WithPeople(Arr(<<>>))}
       \cup {WithPeople(Arr(<<p>>)) : p \in subj}
       \cup {WithPeople(Arr(<<q, p>>)) : p \in subj, q \in Fillers}
       \cup {WithPeople(Arr(<<p, q>>)) : p \in subj, q \in Fillers}

RateVals == {Undef, Null, Str(<<"x">>)} \cup {Num(x) : x \in (-MaxRate)..MaxRate}

\* one person with 1..MaxFrames good frames, and every combination of the
\* three frame-rate fields
RateDocs ==
    {[EmptyDoc EXCEPT
        !.f = (<<"samples", "system", "targetFrameRate">> :> sr
               @@ <<"system", "targetFrameRate">> :> rr),
        !.people = Arr(<<Person(1, Str(sPitcherCap), Undef, pr,
                                Arr([i \in 1..n |-> GoodDict]))>>)] :
        pr \in RateVals, sr \in RateVals, rr \in RateVals, n \in 1..MaxFrames}

RoleTexts ==
    {sPitcherCap, <<"P", "I", "T", "C", "H">>, sBatterCap, sHitter,
     <<"p", "i", "n", "c", "h", " ", "h", "i", "t", "t", "e", "r">>,
     <<"c", "a", "t", "c", "h", "e", "r">>, <<"U", "m", "p", "i", "r", "e">>,
     sUnknown, <<>>}

RoleInputs ==
    {[raw |-> v, name |-> Undef] : v \in {Undef, Null, Num(5)} \cup {Str(t) : t \in RoleTexts}}
    \cup {[raw |-> Obj, name |-> v] : v \in {Undef, Null, Num(5)} \cup {Str(t) : t \in RoleTexts}}

RoleDocs ==
    {WithPeople(Arr(<<[Person(1, Undef, Undef, Undef, Arr(<<GoodDict>>))
                          EXCEPT !.role = ro]>>)) : ro \in RoleInputs}

BuildDocs == JointsDocs \cup RateDocs \cup RoleDocs

InitBuild ==
    /\ file \in {JsonFile(d) : d \in BuildDocs}
    /\ pitchM = Pending /\ batM = Pending /\ releaseSec = Pending
    /\ parsed = Pending /\ fileOutcome = Pending
    /\ TrunkIdle /\ ViewerMounted /\ MoreIdle

ParseTracks ==
    /\ file.text = "json" /\ ~parsed.done
    /\ parsed' = Done(parseHawkEyeJson(file.obj))
    /\ UNCHANGED <<file, pitchM, batM, releaseSec, fileOutcome, trunkVars, viewVars, moreVars>>

NextBuild == ParseTracks

SpecBuild == InitBuild /\ [][NextBuild]_vars

\* the persons of the document under extraction, and the tracks built
People == IF file.obj.people.kind = "array" THEN file.obj.people.items ELSE <<>>
PeopleSet == {People[i] : i \in 1..Len(People)}
TrackSet == {parsed.v[i] : i \in 1..Len(parsed.v)}
HasNoFrames(p) == p.joints.kind # "array" \/ Len(p.joints.items) = 0

\* C5: every track the builder returns has at least one frame; a person
\* whose joints array is missing, not an array or empty yields no track.
C5_NoEmptyTrack ==
    parsed.done =>
        /\ \A t \in TrackSet : Len(t.frames) >= 1
        /\ \A p \in PeopleSet : HasNoFrames(p) => \A t \in TrackSet : t.personId # p.personId
        /\ Len(parsed.v) = Cardinality({i \in 1..Len(People) : ~HasNoFrames(People[i])})

\* a document with one person dropped and one kept has been parsed
C5_Witness ==
    /\ parsed.done /\ Len(parsed.v) = 1
    /\ \E p \in PeopleSet : HasNoFrames(p)
    /\ \E p \in PeopleSet : p.joints = Arr(<<>>)

\* C6: in every built track the frame times are non-decreasing in the frame
\* index, whatever frame rate the document resolves to.
C6_TimesNonDecreasing ==
    parsed.done =>
        \A t \in TrackSet :
            \A i, j \in 1..Len(t.frames) :
                i <= j => NumLeq(t.frames[i].time, t.frames[j].time)

\* the entries of a per-frame dictionary that are arrays of three finite numbers
TripleKeys(J) ==
    {k \in DOMAIN J.e :
        /\ J.e[k].kind = "array" /\ Len(J.e[k].items) = 3
        /\ \A c \in 1..3 : J.e[k].items[c].k = "number"}

\* C7: a person with N per-frame dictionaries gives a track of exactly N
\* frames in input order; frame i has time i / fps, so frame 0 has time 0
\* and frame N-1 has time (N-1) / fps; the joints of a frame are exactly
\* the input entries that are arrays of three finite numbers.
C7_FramesMirrorInput ==
    parsed.done =>
        \A p \in PeopleSet :
            (~HasNoFrames(p) /\ \A i \in 1..Len(p.joints.items) : p.joints.items[i].obj) =>
                \E t \in TrackSet :
                    /\ t.personId = p.personId
                    /\ Len(t.frames) = Len(p.joints.items)
                    /\ \A i \in 1..Len(t.frames) :
                          /\ t.frames[i].time = NumDiv(Num(i - 1), t.fps)
                          /\ DOMAIN t.frames[i].joints = TripleKeys(p.joints.items[i])
                          /\ \A k \in DOMAIN t.frames[i].joints :
                                \A c \in 1..3 :
                                    t.frames[i].joints[k][c] = p.joints.items[i].e[k].items[c].n
                    /\ NumEq(t.frames[1].time, Num(0))

\* C8: the role of a track is pitcher when the role label contains
\* "pitch", hitter when it contains "bat" or "hit", and unknown for every
\* other label.
C8_RoleIsOneOfThree ==
    parsed.done =>
        \A t \in TrackSet :
            \E p \in PeopleSet :
                /\ p.personId = t.personId
                /\ t.role \in {sPitcher, sHitter, sUnknown}
                /\ t.role = IF includes(RoleLabel(p.role), sPitch) THEN sPitcher
                            ELSE IF includes(RoleLabel(p.role), sBat)
                                    \/ includes(RoleLabel(p.role), sHit) THEN sHitter
                            ELSE sUnknown

(***************************************************************************)
(* onFiles: the body of the per-file loop.                                 *)
(***************************************************************************)
MaxPlayers == 2    \* a document lists at most this many players

\* a player as the name extraction reads it: roleName is p?.role?.name
Player(roleName, name, fullName, displayName) ==
    [roleName |-> roleName, name |-> name, fullName |-> fullName,
     displayName |-> displayName]
NoPlayer == Player(Undef, Undef, Undef, Undef)

\* (v || "").toLowerCase(): a truthy value that is no string has no such method
LowerThrows(v) == Truthy(v) /\ v.k # "string"
LowerOf(v) == IF Truthy(v) THEN toLowerCase(v.s) ELSE <<>>

sBatter == <<"b", "a", "t", "t", "e", "r">>

\* players.find(p => names.includes((p?.role?.name || "").toLowerCase()))
RECURSIVE FindRole(_, _, _)
FindRole(ps, i, names) ==
    IF i > Len(ps) THEN [thrown |-> FALSE, p |-> NoPlayer]
    ELSE IF LowerThrows(ps[i].roleName) THEN [thrown |-> TRUE, p |-> NoPlayer]
    ELSE IF LowerOf(ps[i].roleName) \in names THEN [thrown |-> FALSE, p |-> ps[i]]
    ELSE FindRole(ps, i + 1, names)

OrJS(a, b) == IF Truthy(a) THEN a ELSE b
NameOf(p) == OrJS(OrJS(p.name, p.fullName), p.displayName)

extractNames(r) ==
    LET hasPlayers == r.players.kind = "array" \/ r.detailsPlayers.kind = "array"
        ps == IF r.players.kind = "array" THEN r.players.items ELSE r.detailsPlayers.items
        pitFound == FindRole(ps, 1, {sPitcher})
        pit == IF pitFound.p # NoPlayer THEN pitFound.p
               ELSE IF Len(ps) > 0 THEN ps[1] ELSE NoPlayer
        bat == FindRole(ps, 1, {sBatter, sHitter})
    IN IF hasPlayers
       THEN IF pitFound.thrown \/ bat.thrown
            THEN [thrown |-> TRUE, pitcherName |-> Undef, batterName |-> Undef]
            ELSE [thrown |-> FALSE, pitcherName |-> NameOf(pit), batterName |-> NameOf(bat.p)]
       ELSE [thrown |-> FALSE,
             pitcherName |-> OrJS(Get(r, <<"pitcher", "name">>),
                                  Get(r, <<"details", "pitcher", "name">>)),
             batterName |-> OrJS(Get(r, <<"batter", "name">>),
                                 Get(r, <<"details", "batter", "name">>))]

\* what the loop body leaves behind for one file: whether it reported a
\* parse error, and the tracks it pushed
FileResult(error, pushed) == [error |-> error, pushed |-> pushed]

Annotated(r, t, names) ==
    [track |-> t,
     releaseSeconds |-> extractReleaseSecondsFromJson(r),
     pitcherName |-> names.pitcherName,
     batterName |-> names.batterName,
     pitch |-> extractPitchMetrics(r),
     battedBall |-> extractBatMetrics(r)]

sAl == <<"A", "l">>

PlayerPool ==
    {Player(rn, nm, Undef, Undef) :
        rn \in {Undef, Str(sPitcherCap), Str(sBatter), Str(<<>>), Num(0), Num(5), Bool(TRUE)},
        nm \in {Undef, Str(sAl)}}

PlayerLists ==
    {AbsentList, OtherList}
    \cup {Arr(ps) : ps \in UNION {[1..n -> PlayerPool] : n \in 0..MaxPlayers}}

\* documents whose fields have the wrong types: role names that are
\* numbers or booleans, a pitch velocity that is a string
FilesDocs ==
    {[EmptyDoc EXCEPT !.f = f, !.players = pl, !.people = pe] :
        f \in {NoFields, (<<"pitch", "velocityMph">> :> Str(<<"f", "a", "s", "t">>))},
        pl \in PlayerLists,
        pe \in {AbsentList,
                Arr(<<Person(1, Str(sPitcherCap), Undef, Undef, Arr(<<GoodDict>>))>>)}}
    \cup {[EmptyDoc EXCEPT !.detailsPlayers = Arr(<<p>>)] : p \in PlayerPool}

InitFiles ==
    /\ file \in {MalformedFile} \cup {JsonFile(d) : d \in FilesDocs}
    /\ pitchM = Pending /\ batM = Pending /\ releaseSec = Pending
    /\ parsed = Pending /\ fileOutcome = Pending
    /\ TrunkIdle /\ ViewerMounted /\ MoreIdle

\* JSON.parse, then everything up to all.push(...parsed), inside one try;
\* the catch reports "Parse error in <file>" and pushes nothing
LoopBody(f) ==
    IF f.text # "json" THEN FileResult(TRUE, <<>>)
    ELSE LET built == parseHawkEyeJson(f.obj)
             names == extractNames(f.obj)
         IN IF names.thrown THEN FileResult(TRUE, <<>>)
            ELSE FileResult(FALSE,
                     [i \in 1..Len(built) |-> Annotated(f.obj, built[i], names)])

OnFile ==
    /\ ~fileOutcome.done
    /\ fileOutcome' = Done(LoopBody(file))
    /\ UNCHANGED <<file, pitchM, batM, releaseSec, parsed, trunkVars, viewVars, moreVars>>

NextFiles == OnFile

SpecFiles == InitFiles /\ [][NextFiles]_vars

\* C10: a file is reported as failed only when it does not parse as JSON,
\* and every track built from a file that parses is pushed.
C10_OnlyParseFails ==
    fileOutcome.done =>
        /\ fileOutcome.v.error <=> file.text # "json"
        /\ file.text = "json" =>
              /\ Len(fileOutcome.v.pushed) = Len(parseHawkEyeJson(file.obj))
              /\ \A i \in 1..Len(fileOutcome.v.pushed) :
                    fileOutcome.v.pushed[i].track = parseHawkEyeJson(file.obj)[i]

(***************************************************************************)
(* The trunk-rotation filter.  Angles are integers in units of             *)
(* 1 / TrunkScale degree, which keeps 0.7 * prev + 0.3 * unwrapped exact   *)
(* for MaxSteps smoothing steps.                                           *)
(***************************************************************************)
MaxSteps == 3      \* renders after mount; smoothing steps of one filter run
MaxStepDeg == 3    \* consecutive raw yaws are at most this far apart on the circle

RECURSIVE Pow(_, _)
Pow(b, e) == IF e = 0 THEN 1 ELSE b * Pow(b, e - 1)

TrunkScale == Pow(10, MaxSteps)
Deg(d) == d * TrunkScale
Abs(x) == IF x < 0 THEN -x ELSE x

RECURSIVE wrap180(_)
wrap180(d) ==
    IF d > Deg(180) THEN wrap180(d - Deg(360))
    ELSE IF d < Deg(-180) THEN wrap180(d + Deg(360))
    ELSE d

RECURSIVE RaiseToPrev(_, _)
RaiseToPrev(cand, prevDeg) ==
    IF prevDeg - cand > Deg(180) THEN RaiseToPrev(cand + Deg(360), prevDeg) ELSE cand
RECURSIVE LowerToPrev(_, _)
LowerToPrev(cand, prevDeg) ==
    IF cand - prevDeg > Deg(180) THEN LowerToPrev(cand - Deg(360), prevDeg) ELSE cand

unwrapToPrev(newDeg, prevDeg) ==
    wrap180(LowerToPrev(RaiseToPrev(newDeg, prevDeg), prevDeg))

\* the per-frame engine: raw is wrap180(yawDeg(..)), prev is
\* prevTrunkDegRef.current; gives the new ref value and trunkRotDeg
TrunkEngine(raw, prev) ==
    LET unwrapped == IF ~prev.def THEN raw ELSE unwrapToPrev(raw, prev.v)
        smoothed == IF ~prev.def THEN unwrapped
                    ELSE (7 * prev.v + 3 * unwrapped) \div 10
    IN [prev |-> Some(smoothed), trunkRotDeg |-> wrap180(smoothed)]

\* the series builder's loop over the frames, carrying prevTrunk
RECURSIVE TrunkSeries(_, _, _)
TrunkSeries(raws, i, prevTrunk) ==
    IF i > Len(raws) THEN <<>>
    ELSE LET p == IF ~prevTrunk.def THEN raws[i] ELSE prevTrunk.v
             unwrapped == unwrapToPrev(raws[i], p)
         IN <<unwrapped>> \o TrunkSeries(raws, i + 1, Some(unwrapped))

CircDist(a, b) == IF Abs(a - b) > 180 THEN 360 - Abs(a - b) ELSE Abs(a - b)

\* raw yaws within MaxStepDeg of the +/-180 boundary
YawVals == {d \in (-180)..180 : Abs(d) >= 180 - MaxStepDeg}

\* slowly turning shoulder lines: 179, -179, 178 is one of them
YawSeqs ==
    {ys \in UNION {[1..n -> YawVals] : n \in 2..(MaxSteps + 1)} :
        \A i \in 1..(Len(ys) - 1) : CircDist(ys[i], ys[i + 1]) <= MaxStepDeg}

RawDeg(ys) == [i \in 1..Len(ys) |-> wrap180(Deg(ys[i]))]

InitTrunk ==
    /\ yaws \in YawSeqs
    /\ engineOut = <<>> /\ seriesOut = Pending
    /\ ExtractIdle /\ ViewerMounted /\ MoreIdle

\* the engine computes the next frame
EngineFrame ==
    /\ Len(engineOut) < Len(yaws)
    /\ LET r == TrunkEngine(RawDeg(yaws)[Len(engineOut) + 1], prevTrunkDeg)
       IN /\ engineOut' = Append(engineOut, r.trunkRotDeg)
          /\ prevTrunkDeg' = r.prev
    /\ UNCHANGED <<extractVars, yaws, seriesOut, tracks, ti, fi, flipHAbd, flipHome,
                   prevJointMap, frameJoints, metrics, steps, moreVars>>

\* the series builder runs over all frames
BuildSeries ==
    /\ ~seriesOut.done
    /\ seriesOut' = Done(TrunkSeries(RawDeg(yaws), 1, None))
    /\ UNCHANGED <<extractVars, yaws, engineOut, viewVars, moreVars>>

NextTrunk == EngineFrame \/ BuildSeries

SpecTrunk == InitTrunk /\ [][NextTrunk]_vars

\* C2: when the raw shoulder yaw turns slowly across the +/-180 boundary,
\* consecutive trunk-rotation values differ by at most 30 degrees, in the
\* per-frame engine's outputs and in the series builder's series.
C2_TrunkContinuity ==
    /\ \A i \in 1..(Len(engineOut) - 1) :
          Abs(engineOut[i + 1] - engineOut[i]) <= Deg(30)
    /\ seriesOut.done =>
          \A i \in 1..(Len(seriesOut.v) - 1) :
              Abs(seriesOut.v[i + 1] - seriesOut.v[i]) <= Deg(30)

\* C15: the series value at frame i is what the per-frame engine gives for
\* frame i when run over the frames 0..i in order from its reset state,
\* unwrap and 0.7 / 0.3 smoothing included.
C15_SeriesEqualsEngine ==
    seriesOut.done =>
        \A i \in 1..Len(engineOut) : seriesOut.v[i] = engineOut[i]

(***************************************************************************)
(* The viewer.  One action is one state update followed by the render it   *)
(* causes: the memos in hook order (frames, rawJ, frameJoints, metrics),   *)
(* each recomputed when one of its dependencies changed, and then the      *)
(* effects.  Smoothed coordinates are integers in units of 1 / JointScale, *)
(* which keeps 0.65 * pv + 0.35 * cv exact for MaxSteps renders.  The      *)
(* skeletons lie on the X axis, where yawDeg is exact.                     *)
(***************************************************************************)
MaxViewFrames == 2   \* a loaded track has at most this many frames

JointScale == Pow(20, MaxSteps)
Scaled(p) == [c \in 1..3 |-> p[c] * JointScale]

\* the smoothing with the two weights exchanged
SmoothJointSwapped(pv, cv) == [c \in 1..3 |-> (7 * pv[c] + 13 * cv[c]) \div 20]

\* pv.multiplyScalar(1 - SMOOTH_ALPHA).addScaledVector(cv, SMOOTH_ALPHA)
SmoothJoint(pv, cv) == [c \in 1..3 |-> (13 * pv[c] + 7 * cv[c]) \div 20]

\* yawDeg(homeVec, v) for v = (vx, 0, 0): atan2 of signed zeros
yawDeg(flip, vx) ==
    IF flip THEN (IF vx < 0 THEN Deg(180) ELSE 0)
    ELSE (IF vx > 0 THEN Deg(-180) ELSE 0)

FramesOf(ts, t) == IF t + 1 \in 1..Len(ts) THEN ts[t + 1].frames ELSE <<>>
RawJ(frames, f) == IF f + 1 \in 1..Len(frames) THEN frames[f + 1].joints ELSE NoJoints

\* the frameJoints memo: out, which also becomes prevJointMapRef.current
FrameJointsMemo(rawJ, prev) ==
    [k \in DOMAIN rawJ |->
        IF k \in DOMAIN prev THEN SmoothJoint(prev[k], Scaled(rawJ[k]))
        ELSE Scaled(rawJ[k])]

\* the metrics memo: the bag and the new prevTrunkDegRef.current
MetricsMemo(frames, J, prevTrunk, flip) ==
    IF Len(frames) = 0 THEN [bag |-> NullMetrics, prev |-> prevTrunk]
    ELSE LET hasSh == {"lShoulder", "rShoulder"} \subseteq DOMAIN J
             hasHip == {"lHip", "rHip"} \subseteq DOMAIN J
             hip == IF hasHip THEN Some(yawDeg(flip, J["rHip"][1] - J["lHip"][1]))
                    ELSE None
             eng == TrunkEngine(
                        wrap180(yawDeg(flip, J["rShoulder"][1] - J["lShoulder"][1])),
                        prevTrunk)
             trunk == IF hasSh THEN Some(eng.trunkRotDeg) ELSE None
             hipMinus == IF hip.def /\ trunk.def THEN Some(wrap180(hip.v - trunk.v))
                         ELSE None
         IN [bag |-> Bag(trunk, hip, hipMinus),
             prev |-> IF hasSh THEN eng.prev ELSE prevTrunk]

\* the render after the state became (ts, t, f, fh, fl); loaded says the
\* tracks array was replaced
\* a variant in which the smoothed positions are written into the frame on
\* display
TrackSmoothedInPlace(ts, t, f, fj) ==
    IF t + 1 \in 1..Len(ts) /\ f + 1 \in 1..Len(ts[t + 1].frames)
    THEN [ts EXCEPT ![t + 1].frames[f + 1].joints = fj]
    ELSE ts

\* the tracks after the frameJoints memo ran: it builds new vectors and
\* arrays and writes to no frame
TrackAfterSmoothing(ts, t, f, fj) == ts

Render(ts, t, f, fh, fl, loaded) ==
    LET frames == FramesOf(ts, t)
        rawChanged == loaded \/ t # ti \/ f # fi
        fj == IF rawChanged THEN FrameJointsMemo(RawJ(frames, f), prevJointMap)
              ELSE frameJoints
        pjm == IF rawChanged THEN fj ELSE prevJointMap
        metChanged == rawChanged \/ fh # flipHAbd \/ fl # flipHome
        m == IF metChanged THEN MetricsMemo(frames, fj, prevTrunkDeg, fl)
             ELSE [bag |-> metrics, prev |-> prevTrunkDeg]
        \* useEffect(.., [ti, frames.length, flipHome])
        resetRuns == t # ti \/ Len(frames) # Len(FramesOf(tracks, ti)) \/ fl # flipHome
    IN /\ tracks' = TrackAfterSmoothing(ts, t, f, fj)
       /\ ti' = t /\ fi' = f /\ flipHAbd' = fh /\ flipHome' = fl
       /\ frameJoints' = fj
       /\ metrics' = m.bag
       /\ prevJointMap' = IF resetRuns THEN NoJoints ELSE pjm
       /\ prevTrunkDeg' = IF resetRuns THEN None ELSE m.prev
       /\ steps' = steps + 1
       /\ UNCHANGED <<extractVars, trunkVars, bioVars, handVars, eventVars, aliasVars>>

V3(x) == <<x, 0, 0>>

\* skeleton poses: shoulders open to the plate, closed, and one without a
\* right shoulder
PoseOpen ==
    "lShoulder" :> V3(0) @@ "rShoulder" :> V3(1) @@ "lHip" :> V3(0) @@ "rHip" :> V3(1)
PoseClosed ==
    "lShoulder" :> V3(1) @@ "rShoulder" :> V3(0) @@ "lHip" :> V3(0) @@ "rHip" :> V3(1)
PoseNoRight == "lShoulder" :> V3(2)
Poses == {PoseOpen, PoseClosed, PoseNoRight}

ViewTrack(id, poses) ==
    [role |-> sPitcher, personId |-> id, fps |-> Num(DefaultFps),
     frames |-> [i \in 1..Len(poses) |->
                    [time |-> NumDiv(Num(i - 1), Num(DefaultFps)), joints |-> poses[i]]]]

PoseSeqs == UNION {[1..n -> Poses] : n \in 1..MaxViewFrames}

\* what the first load can set: one track, or that track and a second one
SecondTracks == {ViewTrack(2, <<PoseClosed>>), ViewTrack(2, <<PoseOpen, PoseClosed>>)}
TrackSets ==
    {<<ViewTrack(1, ps)>> : ps \in PoseSeqs}
    \cup {<<ViewTrack(1, ps), q>> : ps \in PoseSeqs, q \in SecondTracks}

\* what a later load can set
ReloadSets ==
    {<<ViewTrack(3, <<PoseClosed>>)>>,
     <<ViewTrack(3, <<PoseNoRight, PoseOpen>>)>>,
     <<ViewTrack(3, <<PoseOpen>>), ViewTrack(4, <<PoseClosed>>)>>}

Init ==
    /\ ExtractIdle /\ TrunkIdle /\ ViewerMounted /\ MoreIdle

\* onFiles ends with setTracks(playable); setTi(0); setFi(0)
LoadFiles(ts) ==
    /\ steps < MaxSteps
    /\ ts \in (IF tracks = <<>> THEN TrackSets ELSE ReloadSets)
    /\ Render(ts, 0, 0, flipHAbd, flipHome, TRUE)
    /\ UNCHANGED <<batchVars, jumpVars>>

\* the track select: setTi(+e.target.value); setFi(0)
SelectTrack(t) ==
    /\ steps < MaxSteps
    /\ t \in 0..(Len(tracks) - 1)
    /\ t # ti \/ fi # 0
    /\ Render(tracks, t, 0, flipHAbd, flipHome, FALSE)
    /\ UNCHANGED <<batchVars, jumpVars>>

\* setFi(n): the range input, or a step of smoothJump, whose target
\* FS_DEFAULT / BR_DEFAULT may lie past the last frame
SetFi(f) ==
    /\ steps < MaxSteps
    /\ Len(tracks) > 0
    /\ f # fi
    /\ Render(tracks, ti, f, flipHAbd, flipHome, FALSE)
    /\ UNCHANGED <<batchVars, jumpVars>>

\* the flip-home checkbox
ToggleFlipHome ==
    /\ steps < MaxSteps
    /\ Render(tracks, ti, fi, flipHAbd, ~flipHome, FALSE)
    /\ UNCHANGED <<batchVars, jumpVars>>

\* the flip-abduction checkbox
ToggleFlipHAbd ==
    /\ steps < MaxSteps
    /\ Render(tracks, ti, fi, ~flipHAbd, flipHome, FALSE)
    /\ UNCHANGED <<batchVars, jumpVars>>

Next ==
    \/ \E ts \in TrackSets \cup ReloadSets : LoadFiles(ts)
    \/ \E t \in 0..1 : SelectTrack(t)
    \/ \E f \in 0..MaxViewFrames : SetFi(f)
    \/ ToggleFlipHome
    \/ ToggleFlipHAbd

Spec == Init /\ [][Next]_vars

\* frame f of track t computed from scratch: every joint unsmoothed, the
\* trunk rotation the raw wrapped yaw
RawFrameJoints(ts, t, f) == FrameJointsMemo(RawJ(FramesOf(ts, t), f), NoJoints)
RawMetrics(ts, t, f, fl) ==
    MetricsMemo(FramesOf(ts, t), RawFrameJoints(ts, t, f), None, fl).bag

\* C3: when the active track changes, the first frame shown for the new
\* track has every joint at its raw position and the rotation metrics of
\* the raw wrapped yaw, with nothing carried over from the previous track.
C3_TrackSwitchStartsFresh ==
    [][(tracks' = tracks /\ ti' # ti) =>
          /\ frameJoints' = RawFrameJoints(tracks', ti', fi')
          /\ metrics' = RawMetrics(tracks', ti', fi', flipHome')]_vars

\* C4: the metrics bag depends on the track, the frame index and the
\* configuration only.  Every frame of the first track can be reached by a
\* load and one scrub, where the bag is computed from scratch; so the bag
\* of every state equals the from-scratch bag of its track, frame and
\* configuration, and a render that keeps these leaves the bag as it is.
C4_MetricsArePure ==
    metrics = RawMetrics(tracks, ti, fi, flipHome)

\* C12: after a load that yields tracks nothing of the previous load
\* survives: the active track and frame are 0, and the first frame of the
\* new data is computed with an empty smoothing map and no previous trunk
\* angle, so that its joints and metrics are the from-scratch ones.
C12_LoadDiscardsPriorState ==
    [][(tracks' # tracks /\ tracks' # <<>>) =>
          /\ ti' = 0 /\ fi' = 0
          /\ frameJoints' = RawFrameJoints(tracks', 0, 0)
          /\ metrics' = RawMetrics(tracks', 0, 0, flipHome')]_vars

\* C13: when the displayed frame is recomputed, a joint of the raw frame
\* for which the map holds a previous position is shown at
\* 0.65 * previous + 0.35 * current, a joint for which it holds none is
\* shown at its raw position; the map then holds the positions shown
\* (until the track-switch effect of the same render clears it).
C13_SmoothingRule ==
    [][(<<tracks', ti', fi'>> # <<tracks, ti, fi>>) =>
          LET frames == FramesOf(tracks', ti')
              raw == RawJ(frames, fi')
              cleared == \/ ti' # ti
                         \/ Len(frames) # Len(FramesOf(tracks, ti))
                         \/ flipHome' # flipHome
          IN /\ DOMAIN frameJoints' = DOMAIN raw
             /\ \A k \in DOMAIN raw : \A c \in 1..3 :
                   IF k \in DOMAIN prevJointMap
                   THEN 100 * frameJoints'[k][c]
                           = 65 * prevJointMap[k][c] + 35 * raw[k][c] * JointScale
                   ELSE frameJoints'[k][c] = raw[k][c] * JointScale
             /\ prevJointMap' = IF cleared THEN NoJoints ELSE frameJoints']_vars

\* a frame is on display of which a joint is smoothed and another is a seed
C13_Witness ==
    /\ steps >= 2
    /\ \E k \in DOMAIN frameJoints :
          frameJoints[k] # Scaled(RawJ(FramesOf(tracks, ti), fi)[k])
    /\ \E k \in DOMAIN frameJoints :
          k \notin {"lShoulder"} /\ frameJoints[k] = Scaled(RawJ(FramesOf(tracks, ti), fi)[k])

\* C14: whenever the trunk rotation is available it lies in (-180, 180]
\* degrees: it is never exactly -180.
C14_TrunkInHalfOpenInterval ==
    metrics.trunkRotDeg.def =>
        /\ metrics.trunkRotDeg.v > Deg(-180)
        /\ metrics.trunkRotDeg.v <= Deg(180)

(***************************************************************************)
(* onFiles over a batch: the loop over the files, one file per step (the   *)
(* loop awaits each file's text), then the filter and the state update.    *)
(***************************************************************************)
MaxBatch == 2      \* a batch holds at most this many files

OneTrackDoc(id) ==
    WithPeople(Arr(<<Person(id, Str(sPitcherCap), Undef, Undef, Arr(<<GoodDict>>))>>))

\* a file that does not parse; files with one track; a file whose player
\* has a number for a role name; a file without people; a file with a
\* person without frames beside one with frames; a file with a catcher
BatchFiles ==
    {MalformedFile, JsonFile(OneTrackDoc(1)), JsonFile(OneTrackDoc(2)),
     JsonFile([OneTrackDoc(3) EXCEPT
                 !.players = Arr(<<Player(Num(5), Undef, Undef, Undef)>>)]),
     JsonFile(EmptyDoc),
     JsonFile(WithPeople(Arr(<<Person(4, Str(sBatterCap), Undef, Undef, Arr(<<>>)),
                              Person(5, Str(sBatterCap), Undef, Undef,
                                     Arr(<<GoodDict, GoodDict>>))>>))),
     JsonFile(WithPeople(Arr(<<Person(6, Str(<<"c", "a", "t", "c", "h", "e", "r">>),
                                     Undef, Undef, Arr(<<GoodDict>>))>>)))}

Batches == UNION {[1..n -> BatchFiles] : n \in 1..MaxBatch}

InitBatch ==
    /\ batch \in Batches /\ batchPos = 0 /\ all = <<>>
    /\ ExtractIdle /\ TrunkIdle /\ ViewerMounted /\ BioIdle /\ HandIdle /\ LateIdle

\* one turn of the loop: the per-file try / catch
ReadFile ==
    /\ batchPos < Len(batch)
    /\ LET r == LoopBody(batch[batchPos + 1])
       IN all' = all \o [i \in 1..Len(r.pushed) |-> r.pushed[i].track]
    /\ batchPos' = batchPos + 1
    /\ UNCHANGED <<batch, extractVars, trunkVars, viewVars, bioVars, handVars,
                   eventVars, aliasVars, jumpVars>>

\* after the loop: playable = all.filter(frames.length > 0); with none,
\* setTracks([]) and return; else setTracks(playable), setTi(0), setFi(0)
FinishLoad ==
    /\ batchPos = Len(batch)
    /\ batchPos' = batchPos + 1
    /\ LET playable == SelectSeq(all, LAMBDA t : Len(t.frames) > 0)
       IN IF playable = <<>> THEN Render(<<>>, ti, fi, flipHAbd, flipHome, TRUE)
          ELSE Render(playable, 0, 0, flipHAbd, flipHome, TRUE)
    /\ UNCHANGED <<batch, all, jumpVars>>

NextBatch == ReadFile \/ FinishLoad

SpecBatch == InitBatch /\ [][NextBatch]_vars

\* the tracks of the files that parse as JSON, file after file
RECURSIVE TracksOfParsed(_, _)
TracksOfParsed(files, i) ==
    IF i > Len(files) THEN <<>>
    ELSE (IF files[i].text = "json" THEN parseHawkEyeJson(files[i].obj) ELSE <<>>)
         \o TracksOfParsed(files, i + 1)

\* C11: after a load, the track list holds the playable tracks of every
\* file of the batch that parsed as JSON, in file order, whatever files of
\* the batch failed to parse.
C11_BatchKeepsParsedFiles ==
    batchPos > Len(batch) =>
        tracks = SelectSeq(TracksOfParsed(batch, 1), LAMBDA t : Len(t.frames) > 0)

(***************************************************************************)
(* The kinematics of one frame, as the biomech memo computes them in its   *)
(* loop and the metrics memo for the frame on display.  Joints are integer *)
(* points; the poses of the model keep every segment that enters an angle  *)
(* or a distance parallel to an axis, where angleTo and distanceTo are     *)
(* exact: Dist and angleTo are undefined on other inputs.  Midpoints are   *)
(* kept in doubled coordinates.  Joints go by their canonical names.       *)
(***************************************************************************)
Has(J, k) == k \in DOMAIN J
VSub(a, b) == [c \in 1..3 |-> a[c] - b[c]]
VAdd(a, b) == [c \in 1..3 |-> a[c] + b[c]]
VDot(u, v) == u[1] * v[1] + u[2] * v[2] + u[3] * v[3]
LenSq(u) == VDot(u, u)
IsZero(u) == LenSq(u) = 0

\* a.distanceTo(b)
Dist(a, b) ==
    LET q == LenSq(VSub(a, b)) IN CHOOSE d \in 0..q : d * d = q

\* u.angleTo(v) in degrees: pi / 2 when a vector is zero
angleTo(u, v) ==
    CASE IsZero(u) \/ IsZero(v) -> 90
      [] ~(IsZero(u) \/ IsZero(v)) /\ VDot(u, v) = 0 -> 90
      [] VDot(u, v) > 0 /\ VDot(u, v) * VDot(u, v) = LenSq(u) * LenSq(v) -> 0
      [] VDot(u, v) < 0 /\ VDot(u, v) * VDot(u, v) = LenSq(u) * LenSq(v) -> 180

fold90(deg) ==
    LET d == Abs(deg) % 360
        d180 == IF d > 180 THEN 360 - d ELSE d
    IN IF d180 < 180 - d180 THEN d180 ELSE 180 - d180

\* yawDeg(homeVec, v) for a vector without a y component
yawOf(flip, v) == CASE v[2] = 0 -> yawDeg(flip, v[1])

kneeFlex(J, hip, knee, ankle) ==
    IF Has(J, hip) /\ Has(J, knee) /\ Has(J, ankle)
    THEN Some(angleTo(VSub(J[hip], J[knee]), VSub(J[ankle], J[knee])))
    ELSE None

elbowFlex(J, shoulder, elbow, wrist) ==
    IF Has(J, shoulder) /\ Has(J, elbow) /\ Has(J, wrist)
    THEN Some(angleTo(VSub(J[shoulder], J[elbow]), VSub(J[wrist], J[elbow])))
    ELSE None

\* pelvis and chest, doubled: the joint itself, or the midpoint of the
\* hips / shoulders
NoPoint == [def |-> FALSE, v |-> <<0, 0, 0>>]
Point(v) == [def |-> TRUE, v |-> v]
Pelvis2(J) ==
    IF Has(J, "midHip") THEN Point(VAdd(J["midHip"], J["midHip"]))
    ELSE IF Has(J, "lHip") /\ Has(J, "rHip") THEN Point(VAdd(J["lHip"], J["rHip"]))
    ELSE NoPoint
Chest2(J) ==
    IF Has(J, "chest") THEN Point(VAdd(J["chest"], J["chest"]))
    ELSE IF Has(J, "lShoulder") /\ Has(J, "rShoulder")
         THEN Point(VAdd(J["lShoulder"], J["rShoulder"]))
    ELSE NoPoint

\* the torso-up axis T (its direction)
TorsoUp(J) ==
    IF Pelvis2(J).def /\ Chest2(J).def /\ ~IsZero(VSub(Chest2(J).v, Pelvis2(J).v))
    THEN VSub(Chest2(J).v, Pelvis2(J).v)
    ELSE <<0, 1, 0>>

Abduction(J, shoulder, elbow) ==
    IF Has(J, shoulder) /\ Has(J, elbow) /\ ~IsZero(VSub(J[elbow], J[shoulder]))
    THEN Some(fold90(angleTo(VSub(J[elbow], J[shoulder]), TorsoUp(J))))
    ELSE None

\* H: 1.0, or the distance from the head to the left ankle (to the right
\* one when there is no left one), or a positive bodyHeight
HeightOf(J, bodyHeight) ==
    IF bodyHeight.def /\ bodyHeight.v > 0 THEN bodyHeight.v
    ELSE IF Has(J, "head") /\ (Has(J, "lAnkle") \/ Has(J, "rAnkle"))
         THEN Dist(J["head"], IF Has(J, "lAnkle") THEN J["lAnkle"] ELSE J["rAnkle"])
    ELSE 1

\* a number kept as the fraction num / den, or no number
NoFrac == [def |-> FALSE, num |-> 0, den |-> 1]
Frac(n, d) == [def |-> TRUE, num |-> n, den |-> d]

Stride(J) ==
    IF Has(J, "lAnkle") /\ Has(J, "rAnkle") THEN Some(Dist(J["lAnkle"], J["rAnkle"]))
    ELSE None

\* stride && H ? (stride / H) * 100 : undefined, as the fraction num / den
StridePct(J, bodyHeight) ==
    IF Stride(J).def /\ Stride(J).v # 0 /\ HeightOf(J, bodyHeight) # 0
    THEN Frac(100 * Stride(J).v, HeightOf(J, bodyHeight))
    ELSE NoFrac

\* hipsCoG.x - trunkCoG.x, as the fraction num / den
LinDispHome(J) ==
    LET pts == (IF Pelvis2(J).def THEN <<Pelvis2(J).v[1]>> ELSE <<>>)
               \o (IF Chest2(J).def THEN <<Chest2(J).v[1]>> ELSE <<>>)
               \o (IF Has(J, "rShoulder") THEN <<2 * J["rShoulder"][1]>> ELSE <<>>)
               \o (IF Has(J, "lShoulder") THEN <<2 * J["lShoulder"][1]>> ELSE <<>>)
        sum2 == IF Len(pts) = 0 THEN 0
                ELSE LET RECURSIVE Sum(_)
                         Sum(i) == IF i = 0 THEN 0 ELSE pts[i] + Sum(i - 1)
                     IN Sum(Len(pts))
    IN IF Len(pts) > 0 /\ Has(J, "lHip") /\ Has(J, "rHip")
       THEN Frac((J["lHip"][1] + J["rHip"][1]) * Len(pts) - sum2, 2 * Len(pts))
       ELSE NoFrac

\* the quantities of one frame; prevTrunk is the loop's running trunk angle
\* (none at the first frame with shoulders)
FrameQuantities(J, cfg, prevTrunk) ==
    LET shoulders == Has(J, "lShoulder") /\ Has(J, "rShoulder")
        hips == Has(J, "lHip") /\ Has(J, "rHip")
        raw == wrap180(yawOf(cfg.flipHome, VSub(J["rShoulder"], J["lShoulder"])))
        trunk == IF shoulders
                 THEN Some(unwrapToPrev(raw, IF prevTrunk.def THEN prevTrunk.v ELSE raw))
                 ELSE None
        hip == IF hips THEN Some(yawOf(cfg.flipHome, VSub(J["rHip"], J["lHip"])))
               ELSE None
    IN [trunkRot |-> trunk,
        hipRot |-> hip,
        hipMinusTrunk |-> IF hip.def /\ trunk.def THEN Some(wrap180(hip.v - trunk.v))
                          ELSE None,
        rAbd |-> Abduction(J, "rShoulder", "rElbow"),
        lAbd |-> Abduction(J, "lShoulder", "lElbow"),
        rKnee |-> kneeFlex(J, "rHip", "rKnee", "rAnkle"),
        lKnee |-> kneeFlex(J, "lHip", "lKnee", "lAnkle"),
        rElbow |-> elbowFlex(J, "rShoulder", "rElbow", "rWrist"),
        lElbow |-> elbowFlex(J, "lShoulder", "lElbow", "lWrist"),
        stride |-> Stride(J),
        stridePct |-> StridePct(J, cfg.bodyHeight),
        linDispHome |-> LinDispHome(J),
        prevTrunk |-> IF shoulders THEN trunk ELSE prevTrunk]

\* the metrics memo on the first frame of a first load: frameJoints are the
\* raw joints and no trunk angle has been kept
MetricsOfFrame(J, cfg) == FrameQuantities(J, cfg, None)

SeriesNames ==
    {"trunkRot", "hipRot", "hipMinusTrunk", "rAbd", "lAbd", "rKnee", "lKnee",
     "rElbow", "lElbow", "stride", "stridePct", "linDispHome"}
FracSeries == {"stridePct", "linDispHome"}

\* new Array<number>(n).fill(NaN), twelve times
NewSeries(n) ==
    [s \in SeriesNames |-> [i \in 1..n |-> IF s \in FracSeries THEN NoFrac ELSE None]]

RECURSIVE biomechLoop(_, _, _, _, _)
biomechLoop(frames, cfg, i, prevTrunk, series) ==
    IF i > Len(frames) THEN series
    ELSE LET q == FrameQuantities(frames[i].joints, cfg, prevTrunk)
         IN biomechLoop(frames, cfg, i + 1, q.prevTrunk,
                        [s \in SeriesNames |-> [series[s] EXCEPT ![i] = q[s]]])

\* a variant that appends an entry only for the frames that carry a head
RECURSIVE biomechSkippingHeadless(_, _)
biomechSkippingHeadless(frames, cfg) ==
    IF frames = <<>> THEN NewSeries(0)
    ELSE LET rest == biomechSkippingHeadless(SubSeq(frames, 1, Len(frames) - 1), cfg)
             J == frames[Len(frames)].joints
             q == FrameQuantities(J, cfg, None)
         IN IF ~Has(J, "head") THEN rest
            ELSE [s \in SeriesNames |-> Append(rest[s], q[s])]

biomech(frames, cfg) ==
    IF Len(frames) = 0 THEN NewSeries(0)
    ELSE biomechLoop(frames, cfg, 1, None, NewSeries(Len(frames)))

(***************************************************************************)
(* Poses for the kinematics: a figure standing along the z axis, the left  *)
(* leg straight under the head, the right foot on the line of the left leg *)
(* (on the left foot or a step above it), the right arm hanging, held out  *)
(* or folded onto the shoulder; facing either way; with some joints        *)
(* missing.                                                                *)
(***************************************************************************)
MaxBioFrames == 2

ArmPoints == {<<1, 0, 2>>, <<2, 0, 3>>, <<1, 0, 3>>}
FootLifts == {0, 1}
Facings == {1, -1}

Standing(arm, lift, facing) ==
    LET P(x, y, z) == <<facing * x, y, z>> IN
    [k \in {"head", "lShoulder", "rShoulder", "lElbow", "rElbow", "lWrist", "rWrist",
            "lHip", "rHip", "lKnee", "rKnee", "lAnkle", "rAnkle"} |->
        CASE k = "head" -> P(-1, 0, 4)
          [] k = "lShoulder" -> P(-1, 0, 3)
          [] k = "rShoulder" -> P(1, 0, 3)
          [] k = "lElbow" -> P(-1, 0, 2)
          [] k = "rElbow" -> P(arm[1], arm[2], arm[3])
          [] k = "lWrist" -> P(-1, 0, 1)
          [] k = "rWrist" -> P(arm[1], arm[2], arm[3] - 1)
          [] k = "lHip" -> P(-1, 0, 2)
          [] k = "rHip" -> P(1, 0, 2)
          [] k = "lKnee" -> P(-1, 0, 1)
          [] k = "rKnee" -> P(-1, 0, 2)
          [] k = "lAnkle" -> P(-1, 0, 0)
          [] k = "rAnkle" -> P(-1, 0, lift)]

Without(J, ks) == [k \in DOMAIN J \ ks |-> J[k]]
Mirrored(J) == [k \in DOMAIN J |-> <<-J[k][1], J[k][2], J[k][3]>>]

Droppable == {"head", "lHip", "lAnkle", "rAnkle"}
BioPoses ==
    {Without(Standing(a, l, f), ks) :
        a \in ArmPoints, l \in FootLifts, f \in Facings, ks \in SUBSET Droppable}

\* a track of n frames: the pose, then the pose turned round, and so on
BioTrack(J, n) ==
    [i \in 1..n |-> [time |-> i - 1, joints |-> IF i % 2 = 1 THEN J ELSE Mirrored(J)]]

BodyHeights == {None, Some(0), Some(2)}
BioConfigs ==
    [bodyHeight : BodyHeights, flipHome : BOOLEAN, flipHAbd : BOOLEAN]

InitBio ==
    /\ bioIn \in {[frames |-> BioTrack(J, n), cfg |-> c] :
                    J \in BioPoses, n \in 0..MaxBioFrames, c \in BioConfigs}
    /\ bioOut = [series |-> Pending, metrics |-> Pending]
    /\ ExtractIdle /\ TrunkIdle /\ ViewerMounted /\ BatchIdle /\ HandIdle /\ LateIdle

\* the biomech memo runs
BuildBiomech ==
    /\ ~bioOut.series.done
    /\ bioOut' = [bioOut EXCEPT !.series = Done(biomech(bioIn.frames, bioIn.cfg))]
    /\ UNCHANGED <<extractVars, trunkVars, viewVars, batchVars, handVars, bioIn,
                   eventVars, aliasVars, jumpVars>>

\* the metrics memo runs for the first frame
ShowFirstFrame ==
    /\ ~bioOut.metrics.done
    /\ Len(bioIn.frames) > 0
    /\ bioOut' = [bioOut EXCEPT
                    !.metrics = Done(MetricsOfFrame(bioIn.frames[1].joints, bioIn.cfg))]
    /\ UNCHANGED <<extractVars, trunkVars, viewVars, batchVars, handVars, bioIn,
                   eventVars, aliasVars, jumpVars>>

NextBio == BuildBiomech \/ ShowFirstFrame
SpecBio == InitBio /\ [][NextBio]_vars

\* C16: once the biomech memo has run for a track of N frames (N >= 0), each
\* of the twelve series has exactly N entries, whatever the body-height
\* override and the flip flags are.
C16_SeriesHaveTrackLength ==
    bioOut.series.done =>
        \A s \in SeriesNames : Len(bioOut.series.v[s]) = Len(bioIn.frames)

\* a track of full length whose frames lack the head and an ankle, with a
\* body-height override and both flips on
C16_Witness ==
    /\ bioOut.series.done
    /\ Len(bioIn.frames) = MaxBioFrames
    /\ \A i \in 1..Len(bioIn.frames) :
          ~Has(bioIn.frames[i].joints, "head") /\ ~Has(bioIn.frames[i].joints, "rAnkle")
    /\ bioIn.cfg.bodyHeight = Some(2) /\ bioIn.cfg.flipHome /\ bioIn.cfg.flipHAbd
    /\ \A s \in SeriesNames : Len(bioOut.series.v[s]) = MaxBioFrames

\* the joints a series needs in a frame
Required(s) ==
    CASE s = "trunkRot" -> {"lShoulder", "rShoulder"}
      [] s = "hipRot" -> {"lHip", "rHip"}
      [] s = "hipMinusTrunk" -> {"lShoulder", "rShoulder", "lHip", "rHip"}
      [] s = "rAbd" -> {"rShoulder", "rElbow"}
      [] s = "lAbd" -> {"lShoulder", "lElbow"}
      [] s = "rKnee" -> {"rHip", "rKnee", "rAnkle"}
      [] s = "lKnee" -> {"lHip", "lKnee", "lAnkle"}
      [] s = "rElbow" -> {"rShoulder", "rElbow", "rWrist"}
      [] s = "lElbow" -> {"lShoulder", "lElbow", "lWrist"}
      [] s = "stride" -> {"lAnkle", "rAnkle"}
      [] s = "stridePct" -> {"lAnkle", "rAnkle"}
      [] s = "linDispHome" -> {"lHip", "rHip"}

\* C17: a series entry is NaN only where a joint the quantity needs is
\* missing from the frame; with all of them present (both ankles for stride
\* and stride %, coinciding or not) the entry is a finite number.
C17_NaNOnlyWhereJointMissing ==
    bioOut.series.done =>
        \A s \in SeriesNames : \A i \in 1..Len(bioIn.frames) :
            Required(s) \subseteq DOMAIN bioIn.frames[i].joints
                => bioOut.series.v[s][i].def

\* C18: taking lHip out of a frame makes the left knee flexion unavailable
\* and leaves the right-side results (right knee flexion, right elbow
\* flexion, right shoulder abduction) as they were.
C18_LeftHipOnlyAffectsLeftSide ==
    bioOut.metrics.done /\ Has(bioIn.frames[1].joints, "lHip") =>
        LET with == bioOut.metrics.v
            without == MetricsOfFrame(Without(bioIn.frames[1].joints, {"lHip"}),
                                      bioIn.cfg)
        IN /\ ~without.lKnee.def
           /\ without.rKnee = with.rKnee
           /\ without.rElbow = with.rElbow
           /\ without.rAbd = with.rAbd

\* the distance from the head to the nearer of the two ankles
NearerAnkleHeight(J) ==
    LET l == Dist(J["head"], J["lAnkle"])
        r == Dist(J["head"], J["rAnkle"])
    IN IF l < r THEN l ELSE r

\* C19: stride % is stride / height * 100, the height being the override
\* when it is positive and otherwise the distance from the head to the
\* nearer ankle; without an override and without the head (or without both
\* ankles) stride % is unavailable.
C19_StridePctUsesMeasuredHeight ==
    bioOut.series.done =>
        \A i \in 1..Len(bioIn.frames) :
            LET J == bioIn.frames[i].joints
                h == bioIn.cfg.bodyHeight
                pct == bioOut.series.v["stridePct"][i]
                stride == bioOut.series.v["stride"][i]
                ankles == Has(J, "lAnkle") /\ Has(J, "rAnkle")
            IN IF h.def /\ h.v > 0
               THEN ankles => pct.def /\ pct.num * h.v = 100 * stride.v * pct.den
               ELSE IF Has(J, "head") /\ ankles
               THEN pct.def /\ pct.num * NearerAnkleHeight(J) = 100 * stride.v * pct.den
               ELSE ~pct.def

(***************************************************************************)
(* detectHandedness: the mean x step of each wrist over the frame pairs of *)
(* the last quarter of the track.  A wrist is its x coordinate, or absent. *)
(***************************************************************************)
MaxHandFrames == 9
MaxWristX == 3

\* floor(n * 0.75)
HandStart(n) == (3 * n) \div 4

\* rx, rc (or lx, lc) after the loop over i = start + 1 .. n - 1; frames are
\* numbered from 1 here, so the pairs are (i, i + 1) for i = start + 1 .. n - 1
RECURSIVE WristSum(_, _, _)
WristSum(frames, w, i) ==
    IF i >= Len(frames) THEN [x |-> 0, c |-> 0]
    ELSE LET rest == WristSum(frames, w, i + 1)
             a == frames[i][w]
             b == frames[i + 1][w]
         IN IF a.def /\ b.def
            THEN [x |-> rest.x + (b.v - a.v), c |-> rest.c + 1]
            ELSE rest

\* a variant that answers R when the two means are equal
detectHandednessTieRight(frames) ==
    IF Len(frames) = 0 THEN "?"
    ELSE LET r == WristSum(frames, "rWrist", HandStart(Len(frames)) + 1)
             l == WristSum(frames, "lWrist", HandStart(Len(frames)) + 1)
             rden == IF r.c # 0 THEN r.c ELSE 1
             lden == IF l.c # 0 THEN l.c ELSE 1
         IN IF l.x * rden < r.x * lden THEN "L" ELSE "R"

detectHandedness(frames) ==
    IF Len(frames) = 0 THEN "?"
    ELSE LET r == WristSum(frames, "rWrist", HandStart(Len(frames)) + 1)
             l == WristSum(frames, "lWrist", HandStart(Len(frames)) + 1)
             rden == IF r.c # 0 THEN r.c ELSE 1
             lden == IF l.c # 0 THEN l.c ELSE 1
         IN \* rdx = rc ? rx / rc : 0 and ldx likewise, compared as fractions
            IF r.x * lden < l.x * rden THEN "R"
            ELSE IF l.x * rden < r.x * lden THEN "L"
            ELSE "?"

WristVals == {None} \cup {Some(-x) : x \in 0..MaxWristX}
HandFrames == [rWrist : WristVals, lWrist : WristVals]
StillFrame == [rWrist |-> Some(0), lWrist |-> Some(0)]

\* no frame, two free frames, or MaxHandFrames frames: still ones, then
\* three free ones, which hold the pairs of the last quarter
HandTracks ==
    {<<>>} \cup [1..2 -> HandFrames]
    \cup {[i \in 1..(MaxHandFrames - 3) |-> StillFrame] \o tail :
             tail \in [1..3 -> HandFrames]}

InitHand ==
    /\ handIn \in HandTracks
    /\ handOut = Pending
    /\ ExtractIdle /\ TrunkIdle /\ ViewerMounted /\ BatchIdle /\ BioIdle /\ LateIdle

DetectHand ==
    /\ ~handOut.done
    /\ handOut' = Done(detectHandedness(handIn))
    /\ UNCHANGED <<extractVars, trunkVars, viewVars, batchVars, bioVars, handIn,
                   eventVars, aliasVars, jumpVars>>

NextHand == DetectHand
SpecHand == InitHand /\ [][NextHand]_vars

\* the summed x displacement of a wrist over the pairs of the last quarter
NetDisplacement(frames, w) == WristSum(frames, w, HandStart(Len(frames)) + 1).x

\* C20: over the last quarter of the track, the answer is R when the right
\* wrist's net x displacement is more negative than the left's, L in the
\* opposite case and unknown when they are equal, also when a wrist is
\* missing from some frames.
C20_HandFromNetDisplacement ==
    handOut.done /\ Len(handIn) > 0 =>
        LET rx == NetDisplacement(handIn, "rWrist")
            lx == NetDisplacement(handIn, "lWrist")
        IN handOut.v = (IF rx < lx THEN "R" ELSE IF lx < rx THEN "L" ELSE "?")

\* the same frames with the two wrists' trajectories exchanged
SwapWrists(frames) ==
    [i \in 1..Len(frames) |-> [rWrist |-> frames[i].lWrist, lWrist |-> frames[i].rWrist]]
OtherHand(h) == IF h = "R" THEN "L" ELSE IF h = "L" THEN "R" ELSE "?"

\* C21: hand detection is symmetric: exchanging the left and right wrist
\* trajectories turns R into L, L into R and leaves unknown unchanged, and
\* identical trajectories give unknown.
C21_HandDetectionSymmetric ==
    handOut.done =>
        /\ detectHandedness(SwapWrists(handIn)) = OtherHand(handOut.v)
        /\ (SwapWrists(handIn) = handIn => handOut.v = "?")

\* the right wrist moves towards home faster than the left in the last
\* quarter: R, and L once exchanged
C21_Witness ==
    /\ handOut.done /\ Len(handIn) = MaxHandFrames
    /\ \A i \in 1..Len(handIn) : handIn[i].rWrist.def /\ handIn[i].lWrist.def
    /\ NetDisplacement(handIn, "rWrist") < NetDisplacement(handIn, "lWrist")
    /\ NetDisplacement(handIn, "lWrist") < 0
    /\ handOut.v = "R"
    /\ detectHandedness(SwapWrists(handIn)) = "L"

(***************************************************************************)
(* Event detection.  The frames of the model are one second apart, so dt   *)
(* is 1 in finiteDiff, and carry no toe or heel joints.  Moving averages   *)
(* over three samples are kept multiplied by 6, scores by 30.              *)
(***************************************************************************)
MaxStrikeFrames == 5

finiteDiff(vals) == [i \in 1..Len(vals) |-> IF i = 1 THEN 0 ELSE vals[i] - vals[i - 1]]

\* 6 * movingAvg(a, 3)[i]
movingAvg6(a) ==
    [i \in 1..Len(a) |->
        LET js == {j \in {i - 1, i, i + 1} : j \in 1..Len(a)}
            s == (IF i - 1 \in js THEN a[i - 1] ELSE 0) + a[i]
                 + (IF i + 1 \in js THEN a[i + 1] ELSE 0)
        IN (6 * s) \div Cardinality(js)]

\* the lead side: opposite the hand, or read off the ankles of the middle
\* frame
LeadSide(frames, handHint) ==
    IF handHint = "R" THEN "L"
    ELSE IF handHint = "L" THEN "R"
    ELSE LET mid == frames[(Len(frames) \div 2) + 1]
         IN IF mid.rAnkle.def /\ mid.lAnkle.def
            THEN (IF mid.rAnkle.v[1] < mid.lAnkle.v[1] THEN "R" ELSE "L")
            ELSE IF mid.rAnkle.def THEN "R" ELSE "L"

aKey(frame, side) == IF side = "R" THEN frame.rAnkle ELSE frame.lAnkle

\* the X (c = 1) or Y (c = 2) series of the lead ankle: a missing ankle
\* repeats the last value, 0 at the start
RECURSIVE AnkleSeries(_, _, _, _)
AnkleSeries(frames, side, c, n) ==
    IF n = 0 THEN <<>>
    ELSE LET before == AnkleSeries(frames, side, c, n - 1)
             p == aKey(frames[n], side)
         IN Append(before, IF p.def THEN p.v[c]
                           ELSE IF n = 1 THEN 0 ELSE before[n - 1])

\* the candidates i = 2 .. Y.length - 3 (0-based) from i on, against the
\* best so far
RECURSIVE StrikeScan(_, _, _, _, _)
StrikeScan(Y, Vy6, Vh6, i, best) ==
    IF i > Len(Y) - 2 THEN best
    ELSE LET localMin == Y[i] <= Y[i - 1] /\ Y[i] <= Y[i + 1]
             score30 == 20 * Abs(Vy6[i]) - 10 * (Vh6[i - 1] - Vh6[i]) + 6 * Y[i]
         IN IF localMin /\ (~best.def \/ score30 < best.score)
            THEN StrikeScan(Y, Vy6, Vh6, i + 1,
                            [def |-> TRUE, idx |-> i - 1, score |-> score30])
            ELSE StrikeScan(Y, Vy6, Vh6, i + 1, best)

\* findFootStrike(frames, handHint): a 0-based frame index, or undefined
findFootStrike(frames, handHint) ==
    IF Len(frames) = 0 THEN None
    ELSE LET side == LeadSide(frames, handHint)
             Y == AnkleSeries(frames, side, 2, Len(frames))
             X == AnkleSeries(frames, side, 1, Len(frames))
             Vy6 == movingAvg6(finiteDiff(Y))
             Vh6 == movingAvg6([i \in 1..Len(X) |-> Abs(finiteDiff(X)[i])])
             found == StrikeScan(Y, Vy6, Vh6, 3, [def |-> FALSE, idx |-> 0, score |-> 0])
         IN IF found.def THEN Some(found.idx) ELSE None

\* ankle tracks: the left ankle starts at the origin and, frame by frame,
\* stays, rises or sinks and may slide forward; it may be missing from the
\* third frame; the right ankle stands ahead of it, behind it or is missing
NoAnkle == [def |-> FALSE, v |-> <<0, 0>>]
AnkleSteps == {<<0, -1>>, <<0, 0>>, <<0, 1>>, <<1, 0>>}
RECURSIVE AnklePath(_, _)
AnklePath(stepsTaken, n) ==
    IF n = 1 THEN <<0, 0>>
    ELSE LET q == AnklePath(stepsTaken, n - 1)
         IN <<q[1] + stepsTaken[n - 1][1], q[2] + stepsTaken[n - 1][2]>>

StrikeTrack(stepsTaken, gap, right) ==
    [i \in 1..(Len(stepsTaken) + 1) |->
        [time |-> i - 1,
         lAnkle |-> IF gap /\ i = 3 THEN NoAnkle ELSE Some(AnklePath(stepsTaken, i)),
         rAnkle |-> right]]

StrikeTracks ==
    {<<>>} \cup
    {StrikeTrack(st, gap, right) :
        st \in UNION {[1..n -> AnkleSteps] : n \in 0..(MaxStrikeFrames - 1)},
        gap \in BOOLEAN, right \in {NoAnkle, Some(<<-1, 0>>)}}

InitStrike ==
    /\ evIn \in [frames : StrikeTracks, handHint : {"R", "L", "?"}]
    /\ evOut = Pending
    /\ ExtractIdle /\ TrunkIdle /\ ViewerMounted /\ BatchIdle /\ BioIdle /\ HandIdle
    /\ AliasIdle /\ JumpIdle

FindStrike ==
    /\ ~evOut.done
    /\ evOut' = Done(findFootStrike(evIn.frames, evIn.handHint))
    /\ UNCHANGED <<extractVars, trunkVars, viewVars, batchVars, bioVars, handVars,
                   evIn, aliasVars, jumpVars>>

NextStrike == FindStrike
SpecStrike == InitStrike /\ [][NextStrike]_vars

\* C22: foot-strike detection returns undefined only for an empty frame
\* sequence; for every other sequence (of 1 to 4 frames, or with a strictly
\* monotone lead-ankle height) it returns a frame index.
C22_StrikeFoundOnceFramesExist ==
    evOut.done => (evOut.v.def <=> Len(evIn.frames) > 0)

(***************************************************************************)
(* findBallRelease.  A frame carries the x of each wrist, when it has the  *)
(* wrist, and the x extent of the shoulder line (right minus left, the     *)
(* shoulders lying along the x axis), when it has both shoulders; it has   *)
(* no elbows, so the elbow term of the score is 0.                         *)
(***************************************************************************)
MaxReleaseFrames == 23
SeedWindow == 20

\* indexFromTime(frames, tSec): the first frame nearest to tSec
RECURSIVE NearestFrame(_, _, _)
NearestFrame(frames, tSec, n) ==
    IF n = 1 THEN 1
    ELSE LET b == NearestFrame(frames, tSec, n - 1)
         IN IF Abs(frames[n].time - tSec) < Abs(frames[b].time - tSec) THEN n ELSE b

indexFromTime(frames, tSec) ==
    IF Len(frames) = 0 \/ ~tSec.def THEN None
    ELSE Some(NearestFrame(frames, tSec.v, Len(frames)) - 1)

\* the throwing side: the hint, or the wrist with the smaller mean x step
\* over the last quarter (L when they are equal)
ThrowSide(frames, handHint) ==
    IF handHint \in {"R", "L"} THEN handHint
    ELSE LET r == WristSum(frames, "rWrist", HandStart(Len(frames)) + 1)
             l == WristSum(frames, "lWrist", HandStart(Len(frames)) + 1)
             rden == IF r.c # 0 THEN r.c ELSE 1
             lden == IF l.c # 0 THEN l.c ELSE 1
         IN IF r.x * lden < l.x * rden THEN "R" ELSE "L"

\* a per-frame series with the last value carried over the frames that
\* lack it, 0 at the start; at(frame) is the value, when the frame has it
RECURSIVE CarriedSeries(_, _, _)
CarriedSeries(frames, at(_), n) ==
    IF n = 0 THEN <<>>
    ELSE LET before == CarriedSeries(frames, at, n - 1)
             x == at(frames[n])
         IN Append(before, IF x.def THEN x.v ELSE IF n = 1 THEN 0 ELSE before[n - 1])

WristXOf(side) == IF side = "R" THEN "rWrist" ELSE "lWrist"

\* 6 * Vx
ReleaseVx6(frames, side) ==
    movingAvg6(finiteDiff(CarriedSeries(frames, LAMBDA f : f[WristXOf(side)], Len(frames))))

\* 6 * dTrunk, the yaw in whole degrees
ReleaseTrunk6(frames) ==
    LET yawAt(f) == IF f.shoulders.def
                    THEN Some(yawDeg(FALSE, f.shoulders.v) \div TrunkScale)
                    ELSE None
        d == finiteDiff(CarriedSeries(frames, yawAt, Len(frames)))
    IN movingAvg6([i \in 1..Len(d) |-> Abs(d[i])])

\* the seed when no release time is declared: the scan over i = 1 .. n - 1
\* (0-based) for a smaller Vx, from idx = 0; every velocity of the model is
\* below the initial minV = 1e9
RECURSIVE SeedScan(_, _)
SeedScan(Vx6, n) ==
    IF n = 1 THEN [idx |-> 0, first |-> TRUE]
    ELSE LET b == SeedScan(Vx6, n - 1)
         IN IF b.first \/ Vx6[n] < Vx6[b.idx + 1]
            THEN [idx |-> n - 1, first |-> FALSE] ELSE b

SeedOf(frames, handHint, jsonReleaseSec) ==
    IF jsonReleaseSec.def THEN indexFromTime(frames, jsonReleaseSec).v
    ELSE SeedScan(ReleaseVx6(frames, ThrowSide(frames, handHint)), Len(frames)).idx

\* 60 * score of frame i (0-based)
ReleaseScore60(frames, handHint, i) ==
    -10 * ReleaseVx6(frames, ThrowSide(frames, handHint))[i + 1]
    + 5 * ReleaseTrunk6(frames)[i + 1]

Max2(a, b) == IF a > b THEN a ELSE b
Min2(a, b) == IF a < b THEN a ELSE b

\* the scan of the window lo .. hi from i on
RECURSIVE WindowScan(_, _, _, _, _)
WindowScan(frames, handHint, i, hi, best) ==
    IF i > hi THEN best.idx
    ELSE LET sc == ReleaseScore60(frames, handHint, i)
         IN IF ~best.scored \/ sc > best.score
            THEN WindowScan(frames, handHint, i + 1, hi,
                            [idx |-> i, scored |-> TRUE, score |-> sc])
            ELSE WindowScan(frames, handHint, i + 1, hi, best)

\* findBallRelease(frames, handHint, jsonReleaseSec): a 0-based index, or
\* undefined
findBallRelease(frames, handHint, jsonReleaseSec) ==
    IF Len(frames) = 0 THEN None
    ELSE LET seed == SeedOf(frames, handHint, jsonReleaseSec)
             lo == Max2(1, seed - SeedWindow)
             hi == Min2(Len(frames) - 2, seed + SeedWindow)
         IN Some(WindowScan(frames, handHint, lo, hi,
                            [idx |-> seed, scored |-> FALSE, score |-> 0]))

\* long tracks: the right wrist moves at a constant speed, from some frame
\* on it drives towards home; the shoulder line turns round at some frame
LongTrack(speed, burstAt, turnAt) ==
    [i \in 1..MaxReleaseFrames |->
        [time |-> i - 1,
         rWrist |-> Some(IF i < burstAt THEN speed * (i - 1)
                         ELSE speed * (burstAt - 1) - 2 * (i - burstAt + 1)),
         lWrist |-> Some(0),
         shoulders |-> IF turnAt = 0 THEN None
                       ELSE Some(IF i < turnAt THEN 1 ELSE -1)]]

\* short tracks: the right wrist anywhere or missing, frame by frame
ShortTracks ==
    UNION {[1..n -> [time : {0}, rWrist : {None, Some(-1), Some(0), Some(1)},
                     lWrist : {Some(0)}, shoulders : {Some(1)}]] : n \in 0..3}
Timed(frames) == [i \in 1..Len(frames) |-> [frames[i] EXCEPT !.time = i - 1]]

ReleaseTracks ==
    {Timed(t) : t \in ShortTracks}
    \cup {LongTrack(v, b, t) : v \in {-1, 0, 1},
                               b \in {3, MaxReleaseFrames - 1, MaxReleaseFrames + 1},
                               t \in {0, 2, MaxReleaseFrames - 1, MaxReleaseFrames}}

InitBallRelease ==
    /\ evIn \in [frames : ReleaseTracks, handHint : {"R", "?"},
                 jsonReleaseSec : {None, Some(0), Some(1), Some(MaxReleaseFrames - 1)}]
    /\ evOut = Pending
    /\ ExtractIdle /\ TrunkIdle /\ ViewerMounted /\ BatchIdle /\ BioIdle /\ HandIdle
    /\ AliasIdle /\ JumpIdle

FindBallRelease ==
    /\ ~evOut.done
    /\ evOut' = Done(findBallRelease(evIn.frames, evIn.handHint, evIn.jsonReleaseSec))
    /\ UNCHANGED <<extractVars, trunkVars, viewVars, batchVars, bioVars, handVars,
                   evIn, aliasVars, jumpVars>>

NextBallRelease == FindBallRelease
SpecBallRelease == InitBallRelease /\ [][NextBallRelease]_vars

\* the frames (0-based) a seed may be by the claim: the first frame nearest
\* to the declared time, or a frame of minimum forward wrist velocity
ClaimedSeeds(frames, handHint, jsonReleaseSec) ==
    IF jsonReleaseSec.def THEN {NearestFrame(frames, jsonReleaseSec.v, Len(frames)) - 1}
    ELSE LET Vx6 == ReleaseVx6(frames, ThrowSide(frames, handHint))
         IN {m - 1 : m \in {k \in 1..Len(frames) : \A j \in 1..Len(frames) : Vx6[k] <= Vx6[j]}}

\* C23: for a non-empty sequence of n frames, ball-release detection
\* returns an index r in 0 .. n - 1 within 20 frames of the seed (the frame
\* nearest to the declared release time, or else the frame of minimum
\* forward wrist velocity), and among the scored frames of the window the
\* one with the highest score, the earliest of them on ties.
C23_ReleaseNearSeedWithBestScore ==
    evOut.done /\ Len(evIn.frames) > 0 =>
        LET fr == evIn.frames
            n == Len(fr)
            r == evOut.v.v
        IN /\ evOut.v.def /\ r \in 0..(n - 1)
           /\ \E seed \in ClaimedSeeds(fr, evIn.handHint, evIn.jsonReleaseSec) :
                 /\ Abs(r - seed) <= SeedWindow
                 /\ LET window == {i \in 1..(n - 2) : Abs(i - seed) <= SeedWindow}
                        sc(i) == ReleaseScore60(fr, evIn.handHint, i)
                    IN window # {} =>
                          /\ r \in window
                          /\ \A i \in window : sc(i) <= sc(r)
                          /\ \A i \in window : sc(i) = sc(r) => r <= i

(***************************************************************************)
(* The viewer with its jumps.  smoothJump starts a loop of animation-frame *)
(* callbacks; a loop keeps the fi, the start value and the target of the   *)
(* render it was started in.  A callback finds the loop at k / EaseSteps   *)
(* of its duration, for some k past the last one.  The biomech memo is     *)
(* part of the state.                                                      *)
(***************************************************************************)
MaxJumps == 2
EaseSteps == 2
FS_DEFAULT == 560
BR_DEFAULT == 605

\* Math.round(from + (target - from) * easeInOutQuad(k / EaseSteps))
EasedFrame(from, target, k) ==
    LET K2 == EaseSteps * EaseSteps
        e == IF 2 * k < EaseSteps THEN 2 * k * k
             ELSE 4 * k * EaseSteps - 2 * k * k - K2
    IN (2 * (from * K2 + (target - from) * e) + K2) \div (2 * K2)

ViewConfig(fh, fl) == [bodyHeight |-> None, flipHome |-> fl, flipHAbd |-> fh]

\* the biomech memo after a render
BiomechMemo(ts, t, fh, fl) ==
    IF FramesOf(ts, t) # FramesOf(tracks, ti) \/ t # ti \/ fh # flipHAbd \/ fl # flipHome
    THEN biomech(FramesOf(ts, t), ViewConfig(fh, fl))
    ELSE biomechMemo

JumpTrackSets ==
    {<<ViewTrack(1, <<PoseOpen, PoseClosed>>)>>,
     <<ViewTrack(1, <<PoseClosed>>), ViewTrack(2, <<PoseOpen, PoseClosed>>)>>,
     <<ViewTrack(3, <<PoseNoRight, PoseOpen>>)>>}

InitJump ==
    /\ ExtractIdle /\ TrunkIdle /\ ViewerMounted /\ BatchIdle /\ BioIdle /\ HandIdle
    /\ EventIdle /\ AliasIdle
    /\ loops = {} /\ jumps = [issued |-> 0, settled |-> FALSE]
    /\ biomechMemo = biomech(<<>>, ViewConfig(FALSE, FALSE))

\* onFiles ends with setTracks(playable); setTi(0); setFi(0)
JumpLoad(ts) ==
    /\ steps < MaxSteps
    /\ ts \in JumpTrackSets
    /\ Render(ts, 0, 0, flipHAbd, flipHome, TRUE)
    /\ biomechMemo' = BiomechMemo(ts, 0, flipHAbd, flipHome)
    /\ jumps' = [jumps EXCEPT !.settled = TRUE]
    /\ UNCHANGED <<batchVars, loops>>

\* the track select: setTi(+e.target.value); setFi(0)
JumpSelect(t) ==
    /\ steps < MaxSteps
    /\ t \in 0..(Len(tracks) - 1)
    /\ t # ti \/ fi # 0
    /\ Render(tracks, t, 0, flipHAbd, flipHome, FALSE)
    /\ biomechMemo' = BiomechMemo(tracks, t, flipHAbd, flipHome)
    /\ jumps' = [jumps EXCEPT !.settled = TRUE]
    /\ UNCHANGED <<batchVars, loops>>

\* the range input, min 0, max Math.max(0, frames.length - 1)
Scrub(f) ==
    /\ steps < MaxSteps
    /\ f \in 0..(Len(FramesOf(tracks, ti)) - 1)
    /\ f # fi
    /\ Render(tracks, ti, f, flipHAbd, flipHome, FALSE)
    /\ biomechMemo' = BiomechMemo(tracks, ti, flipHAbd, flipHome)
    /\ jumps' = [jumps EXCEPT !.settled = FALSE]
    /\ UNCHANGED <<batchVars, loops>>

\* smoothJump(target): requestAnimationFrame(step)
smoothJump(target) ==
    /\ jumps.issued < MaxJumps
    /\ jumps' = [issued |-> jumps.issued + 1, settled |-> FALSE]
    /\ loops' = loops \cup {[id |-> jumps.issued + 1, from |-> fi, seen |-> fi,
                             target |-> target, k |-> 0]}
    /\ UNCHANGED <<extractVars, trunkVars, viewVars, batchVars, bioVars, handVars,
                   eventVars, aliasVars, biomechMemo>>

\* fsIdx and brIdx are always FS_DEFAULT and BR_DEFAULT
goFootStrike == smoothJump(FS_DEFAULT)
goRelease == smoothJump(BR_DEFAULT)

\* an animation frame: step(now) of loop l, found at k / EaseSteps
Step(l, k) ==
    /\ l \in loops
    /\ k \in (l.k + 1)..EaseSteps
    /\ LET next == EasedFrame(l.from, l.target, k)
           f == IF k = EaseSteps THEN l.target
                ELSE IF next # l.seen THEN next ELSE fi
       IN /\ f # fi => steps < MaxSteps
          /\ loops' = (loops \ {l}) \cup
                      (IF k < EaseSteps THEN {[l EXCEPT !.k = k]} ELSE {})
          /\ IF f # fi
             THEN /\ Render(tracks, ti, f, flipHAbd, flipHome, FALSE)
                  /\ biomechMemo' = BiomechMemo(tracks, ti, flipHAbd, flipHome)
                  /\ UNCHANGED batchVars
             ELSE UNCHANGED <<extractVars, trunkVars, viewVars, batchVars, bioVars,
                              handVars, eventVars, aliasVars, biomechMemo>>
    /\ UNCHANGED jumps

NextJump ==
    \/ \E ts \in JumpTrackSets : JumpLoad(ts)
    \/ \E t \in 0..1 : JumpSelect(t)
    \/ \E f \in 0..MaxViewFrames : Scrub(f)
    \/ goFootStrike
    \/ goRelease
    \/ \E l \in loops : \E k \in 1..EaseSteps : Step(l, k)

SpecJump == InitJump /\ [][NextJump]_vars

\* C24: at most one easing loop drives the frame index: once a new jump has
\* been issued, the loop of an earlier jump writes the frame index no more.
C24_OnlyLatestLoopWrites ==
    [][(jumps' = jumps /\ fi' # fi) => \A l \in loops \ loops' : l.id = jumps.issued]_vars

\* C28: whenever the active track has N >= 1 frames, 0 <= fi <= N - 1.
C28_FrameIndexInRange ==
    Len(FramesOf(tracks, ti)) >= 1 => fi \in 0..(Len(FramesOf(tracks, ti)) - 1)

\* C29: after a track select or a load has set the frame index to 0, it
\* stays 0 until the next scrub or jump of the user.
C29_IndexStaysZeroAfterReset ==
    jumps.settled => fi = 0

\* a scrub, a jump or an animation frame of a jump
DisplayActivity == ~jumps'.settled \/ loops' # loops

\* C27: display activity leaves the track's frames and the biomechanics
\* series as they are: smoothing works on a copy of the frame on display,
\* and the series are those of the raw frames.
C27_DisplayLeavesSeriesAlone ==
    [][DisplayActivity =>
          /\ tracks' = tracks
          /\ biomechMemo' = biomechMemo
          /\ biomechMemo' = biomech(FramesOf(tracks', ti'), ViewConfig(flipHAbd', flipHome'))
      ]_vars

\* after a jump was issued and the user scrubbed, the frame on display is
\* shown smoothed while the series of the two-frame track are those of its
\* raw frames
C27_Witness ==
    /\ ~jumps.settled /\ jumps.issued > 0
    /\ Len(FramesOf(tracks, ti)) = 2
    /\ \E k \in DOMAIN frameJoints :
          frameJoints[k] # Scaled(RawJ(FramesOf(tracks, ti), fi)[k])
    /\ Len(biomechMemo["trunkRot"]) = 2
    /\ biomechMemo = biomech(FramesOf(tracks, ti), ViewConfig(flipHAbd, flipHome))

\* C25: after a load, every track of the viewer's track list has one of
\* the two playable roles, pitcher or hitter.
C25_OnlyPlayableRolesRetained ==
    batchPos > Len(batch) =>
        \A i \in 1..Len(tracks) : tracks[i].role \in {sPitcher, sHitter}

\* ---------------------------------------------------------------------
\* Landmark resolution: the draw effect and the key joints of the metrics
\* and biomechanics memos, on one joint dictionary
\* ---------------------------------------------------------------------

MaxDictKeys == 3

nHead == <<"h","e","a","d">>
nNose == <<"n","o","s","e">>
nTopHead == <<"t","o","p","H","e","a","d">>
nNeck == <<"n","e","c","k">>
nC7 == <<"c","7">>
nNeckBase == <<"n","e","c","k","B","a","s","e">>
nChest == <<"c","h","e","s","t">>
nMidShoulder == <<"m","i","d","S","h","o","u","l","d","e","r">>
nUpperChest == <<"u","p","p","e","r","C","h","e","s","t">>
nSternum == <<"s","t","e","r","n","u","m">>
nMidHip == <<"m","i","d","H","i","p">>
nPelvis == <<"p","e","l","v","i","s">>
nHipCenter == <<"h","i","p","C","e","n","t","e","r">>
nPelvisCenter == <<"p","e","l","v","i","s","C","e","n","t","e","r">>
nShoulder == <<"S","h","o","u","l","d","e","r">>
nElbow == <<"E","l","b","o","w">>
nWrist == <<"W","r","i","s","t">>
nHip == <<"H","i","p">>
nKnee == <<"K","n","e","e">>
nAnkle == <<"A","n","k","l","e">>
nHeel == <<"H","e","e","l">>
nBigToe == <<"B","i","g","T","o","e">>
nL == <<"l">>
nR == <<"r">>
nLeft == <<"l","e","f","t">>
nRight == <<"r","i","g","h","t">>

\* the sixteen landmarks of the skeleton
Landmarks == 0..15

\* const aliases: Record<number, string[]>
aliases ==
    [idx \in Landmarks |->
        CASE idx = 0 -> <<nHead, nNose, nTopHead>>
          [] idx = 1 -> <<nNeck, nC7, nNeckBase>>
          [] idx = 2 -> <<nChest, nMidShoulder, nUpperChest, nSternum>>
          [] idx = 3 -> <<nMidHip, nPelvis, nHipCenter, nPelvisCenter>>
          [] idx = 4 -> <<nL \o nShoulder, nLeft \o nShoulder>>
          [] idx = 5 -> <<nL \o nElbow, nLeft \o nElbow>>
          [] idx = 6 -> <<nL \o nWrist, nLeft \o nWrist>>
          [] idx = 7 -> <<nR \o nShoulder, nRight \o nShoulder>>
          [] idx = 8 -> <<nR \o nElbow, nRight \o nElbow>>
          [] idx = 9 -> <<nR \o nWrist, nRight \o nWrist>>
          [] idx = 10 -> <<nL \o nHip, nLeft \o nHip>>
          [] idx = 11 -> <<nL \o nKnee, nLeft \o nKnee>>
          [] idx = 12 -> <<nL \o nAnkle, nLeft \o nAnkle, nL \o nHeel,
                           nLeft \o nHeel, nL \o nBigToe, nLeft \o nBigToe>>
          [] idx = 13 -> <<nR \o nHip, nRight \o nHip>>
          [] idx = 14 -> <<nR \o nKnee, nRight \o nKnee>>
          [] idx = 15 -> <<nR \o nAnkle, nRight \o nAnkle, nR \o nHeel,
                           nRight \o nHeel, nR \o nBigToe, nRight \o nBigToe>>]

\* a joint dictionary is the list of its entries in key order; J[nm]
JointAt(J, nm) ==
    IF \E i \in 1..Len(J) : J[i].k = nm
    THEN Some(J[CHOOSE i \in 1..Len(J) : J[i].k = nm].v)
    ELSE None

\* a || b on positions (a position, an array, is truthy)
OrElse(a, b) == IF a.def THEN a ELSE b

\* (L + R) / 2 when both are there
MidOf(l, r) == IF l.def /\ r.def THEN Some((l.v + r.v) \div 2) ELSE None

\* for (const nm of names) if (!current[idx] && J[nm]) { current[idx] = J[nm]; break; }
RECURSIVE FirstAlias(_, _)
FirstAlias(J, names) ==
    IF names = <<>> THEN None
    ELSE OrElse(JointAt(J, Head(names)), FirstAlias(J, Tail(names)))

\* the draw effect's current[], with chest and pelvis filled in
DrawCurrent(J) ==
    LET current == [idx \in Landmarks |-> FirstAlias(J, aliases[idx])]
    IN  [idx \in Landmarks |->
            CASE idx = 2 -> OrElse(current[2], MidOf(current[4], current[7]))
              [] idx = 3 -> OrElse(current[3], MidOf(current[10], current[13]))
              [] OTHER -> current[idx]]

IsLetter(c) == \E i \in 1..Len(Uppers) : Uppers[i] = c \/ Lowers[i] = c

\* s.replace(/[^a-z]/gi, "").toLowerCase()
LettersLower(s) == toLowerCase(SelectSeq(s, IsLetter))

\* get(name) of the metrics memo, getFrom of the biomechanics memo: the
\* first key, in key order, that equals the name up to case and non-letters
get(J, name) ==
    LET hits == {i \in 1..Len(J) : LettersLower(J[i].k) = LettersLower(name)}
    IN  IF hits = {} THEN None
        ELSE Some(J[CHOOSE i \in hits : \A j \in hits : i <= j].v)

\* get(first) || J[second] || ...: one || chain of the key joints; the
\* names looked up with get come with TRUE
RECURSIVE KeyJoint(_, _)
KeyJoint(J, chain) ==
    IF chain = <<>> THEN None
    ELSE OrElse(IF Head(chain)[2] THEN get(J, Head(chain)[1])
                ELSE JointAt(J, Head(chain)[1]),
                KeyJoint(J, Tail(chain)))

\* the landmarks the key joints resolve (there is no neck among them)
KeyLandmarks == Landmarks \ {1}

\* the || chains of the key joints, by landmark
KeyChains ==
    [idx \in KeyLandmarks |->
        CASE idx = 0 -> <<<<nHead, TRUE>>, <<nNose, TRUE>>, <<nTopHead, FALSE>>>>
          [] idx = 2 -> <<<<nChest, TRUE>>, <<nMidShoulder, FALSE>>,
                          <<nUpperChest, FALSE>>, <<nSternum, FALSE>>,
                          <<nNeck, TRUE>>, <<nC7, FALSE>>>>
          [] idx = 3 -> <<<<nMidHip, TRUE>>, <<nPelvis, TRUE>>,
                          <<nHipCenter, FALSE>>, <<nPelvisCenter, FALSE>>>>
          [] idx \in {12, 15} ->
                <<<<aliases[idx][1], TRUE>>>> \o
                [i \in 1..5 |-> <<aliases[idx][i + 1], FALSE>>]
          [] OTHER -> <<<<aliases[idx][1], TRUE>>, <<aliases[idx][2], FALSE>>>>]

\* lSh .. rAn, pelvis, chest and head of the metrics and biomechanics memos
KeyJoints(J) ==
    LET raw == [idx \in KeyLandmarks |-> KeyJoint(J, KeyChains[idx])]
    IN  [idx \in KeyLandmarks |->
            CASE idx = 2 -> OrElse(raw[2], MidOf(raw[4], raw[7]))
              [] idx = 3 -> OrElse(raw[3], MidOf(raw[10], raw[13]))
              [] OTHER -> raw[idx]]

\* keys of the dictionaries tried: right ankle and heel, chest and neck,
\* the shoulders and the hips, and two keys as other exporters spell them
DictKeys ==
    { nR \o nAnkle, <<"R","_","A","n","k","l","e">>, nRight \o nAnkle,
      nR \o nHeel, nChest, nNeck, nC7,
      nL \o nShoulder, nR \o nShoulder, <<"L","S","h","o","u","l","d","e","r">>,
      nMidHip, nL \o nHip, nR \o nHip }

\* the i-th entry lies at 2^(i+1), so entries and midpoints are all apart
PlaceOf(i) == 2^(i + 1)

JointDicts ==
    { [i \in 1..Len(ks) |-> [k |-> ks[i], v |-> PlaceOf(i)]] :
        ks \in { s \in UNION { [1..n -> DictKeys] : n \in 0..MaxDictKeys } :
                    \A i, j \in 1..Len(s) : i # j => s[i] # s[j] } }

InitAlias ==
    /\ ExtractIdle /\ TrunkIdle /\ ViewerMounted /\ BatchIdle /\ BioIdle /\ HandIdle
    /\ EventIdle /\ JumpIdle
    /\ aliasIn \in JointDicts
    /\ aliasOut = <<>>

\* one render of a frame: the metrics memo resolves its key joints and the
\* draw effect its landmarks, both from the same frameJoints
ResolveFrame ==
    /\ aliasOut = <<>>
    /\ aliasOut' = [draw |-> DrawCurrent(aliasIn), key |-> KeyJoints(aliasIn)]
    /\ UNCHANGED <<extractVars, trunkVars, viewVars, batchVars, bioVars, handVars,
                   eventVars, jumpVars, aliasIn>>

NextAlias == ResolveFrame

SpecAlias == InitAlias /\ [][NextAlias]_vars

\* the names of a || chain, in order
NamesOf(chain) == [i \in 1..Len(chain) |-> chain[i][1]]

\* the value of the first name of a priority list that is a key of J
FirstPresent(J, names) ==
    LET there == {i \in 1..Len(names) : \E e \in 1..Len(J) : J[e].k = names[i]}
    IN  IF there = {} THEN None
        ELSE JointAt(J, names[CHOOSE i \in there : \A j \in there : i <= j])

\* what precedence by priority list gives for landmark idx: the first name
\* present; for chest and pelvis the midpoint of the two sides when no name
\* of theirs is present
ByPrecedence(J, lists, idx) ==
    CASE idx = 2 -> OrElse(FirstPresent(J, lists[2]),
                           MidOf(FirstPresent(J, lists[4]), FirstPresent(J, lists[7])))
      [] idx = 3 -> OrElse(FirstPresent(J, lists[3]),
                           MidOf(FirstPresent(J, lists[10]), FirstPresent(J, lists[13])))
      [] OTHER -> FirstPresent(J, lists[idx])

\* C26: in both resolvers every landmark resolves to the value of the first
\* name of its priority list that is present in the dictionary, and chest
\* and pelvis are the midpoint of shoulders and hips only when none of
\* their own names is present.
C26_FirstAliasPresentWins ==
    aliasOut # <<>> =>
        /\ \A idx \in Landmarks :
              aliasOut.draw[idx] = ByPrecedence(aliasIn, aliases, idx)
        /\ \A idx \in KeyLandmarks :
              aliasOut.key[idx] =
                  ByPrecedence(aliasIn, [i \in KeyLandmarks |-> NamesOf(KeyChains[i])], idx)

\* C30: the draw effect and the key joints resolve the same position for
\* every landmark both of them resolve, from the same dictionary.
C30_ResolversAgree ==
    aliasOut # <<>> =>
        \A idx \in KeyLandmarks : aliasOut.draw[idx] = aliasOut.key[idx]

====
